---------------------------- MODULE Spec2Model ----------------------------
(***************************************************************************)
(* Model of the scrape / send pipeline of the Email-Marketing backend:     *)
(*   src/src/utils/scraper.py        WebScraperService                     *)
(*   src/src/utils/gmail_service.py  GmailService                          *)
(*                                                                         *)
(* Python values are modelled as follows.                                  *)
(*  - A string is a sequence of pieces.  The pieces "http://" and          *)
(*    "https://" stand for these literal substrings, "sp" for a whitespace *)
(*    character, "a" for a letter, and "/" and ":" for themselves.         *)
(*  - A value that may or may not be a string is a record [type, s].       *)
(*  - A dict is a record; a missing key is a missing field.                *)
(*  - An exception is a record [type, msg, status].                        *)
(***************************************************************************)
EXTENDS Integers, Sequences, FiniteSets, TLC

(* ------------------------------ bounds -------------------------------- *)
MaxLen == 3        \* longest URL string drawn as an input, in pieces
MaxN == 2          \* longest input list of a batch call
MaxConc == 2       \* largest max_concurrent drawn
MaxDelay == 1      \* largest delay_between_batches drawn, in ticks
MaxTime == 1       \* ticks the clock may advance while a send is in flight
MaxElems == 3      \* most elements of a fetched page
MaxLogin == 1      \* most logins started, and so most sessions created
MaxAdvance == 2    \* most times the clock is advanced between two calls
MaxMint == 2       \* most access tokens Google issues

(* ------------------------- program constants -------------------------- *)
max_content_length == 1000000
STATE_TTL_SECONDS == 600

(* ------------------------------ values -------------------------------- *)
Pieces == {"sp", "http://", "https://", "a", "/", ":"}

RECURSIVE SeqsUpTo(_, _)
SeqsUpTo(S, n) ==
    IF n = 0 THEN {<<>>}
    ELSE LET shorter == SeqsUpTo(S, n - 1)
         IN  shorter \cup {Append(s, c) : s \in {t \in shorter : Len(t) = n - 1}, c \in S}

Str(s) == [type |-> "str", s |-> s]
None == [type |-> "None", s |-> <<>>]
AnInt == [type |-> "int", s |-> <<>>]      \* a truthy value that is not a string

\* `not v` for the values above: None and the empty string are falsy
Falsy(v) == v.type = "None" \/ (v.type = "str" /\ v.s = <<>>)

(* --------------------------- str.strip() ------------------------------ *)
RECURSIVE lstrip(_)
lstrip(s) == IF s # <<>> /\ Head(s) = "sp" THEN lstrip(Tail(s)) ELSE s

RECURSIVE rstrip(_)
rstrip(s) ==
    IF s # <<>> /\ s[Len(s)] = "sp" THEN rstrip(SubSeq(s, 1, Len(s) - 1)) ELSE s

strip(s) == rstrip(lstrip(s))

\* url.startswith(('http://', 'https://'))
startswith_scheme(s) == s # <<>> /\ Head(s) \in {"http://", "https://"}

(* ---------------------- urlparse(url).netloc -------------------------- *)
\* The authority of a URL that begins with a scheme piece: what follows the
\* "//" up to the first "/".  A scheme piece further on contributes its
\* letters and its colon, and its first "/" ends the authority.
RECURSIVE authority(_)
authority(rest) ==
    IF rest = <<>> \/ Head(rest) = "/" THEN <<>>
    ELSE IF Head(rest) \in {"http://", "https://"} THEN <<"a", ":">>
    ELSE <<Head(rest)>> \o authority(Tail(rest))

netloc(s) == IF startswith_scheme(s) THEN authority(Tail(s)) ELSE <<>>

(* ------------------ WebScraperService._clean_url ---------------------- *)
\* the protocol added without looking at what the URL starts with
add_scheme_always(stripped) == <<"https://">> \o stripped

\* lines 127-128: add the protocol if it is missing
add_scheme(stripped) ==
    IF startswith_scheme(stripped) THEN stripped ELSE <<"https://">> \o stripped

clean_url(url) ==
    IF Falsy(url) \/ url.type # "str" THEN None
    ELSE LET stripped == strip(url.s)
         IN  IF stripped = <<>> THEN None
             ELSE IF netloc(add_scheme(stripped)) = <<>> THEN None
             ELSE Str(add_scheme(stripped))

(* ----------------------------- outcomes ------------------------------- *)
\* What a call does: it returns a value or raises an exception; `events`
\* lists the network effects it had, in order.
NoExc == [type |-> "", msg |-> "", status |-> 0]
Exc(type, msg) == [type |-> type, msg |-> msg, status |-> 0]
HTTPStatusError(status) == [type |-> "HTTPStatusError", msg |-> "status error", status |-> status]
NoVal == [success |-> FALSE]

Return(val, events) == [kind |-> "return", val |-> val, exc |-> NoExc, events |-> events]
Raise(exc, events) == [kind |-> "raise", val |-> NoVal, exc |-> exc, events |-> events]

\* f"HTTP {status_code}"
Statuses == {200, 204, 404, 500}
FmtHTTP(status) ==
    CASE status = 200 -> "HTTP 200"
      [] status = 204 -> "HTTP 204"
      [] status = 404 -> "HTTP 404"
      [] status = 500 -> "HTTP 500"
      [] OTHER -> "HTTP ?"

\* Response.is_success, which raise_for_status tests
is_success(status) == 200 <= status /\ status <= 299

(* ---------------------- the network, for a fetch ---------------------- *)
\* The 'content-length' header of a response: absent, the empty string, a
\* decimal number, or text that int() rejects.
ContentLengths ==
    {[kind |-> "absent", n |-> 0], [kind |-> "empty", n |-> 0], [kind |-> "garbage", n |-> 0]}
    \cup {[kind |-> "int", n |-> n] : n \in {0, max_content_length, max_content_length + 1}}

FetchNets ==
    {[kind |-> k, status |-> 0, cl |-> [kind |-> "absent", n |-> 0], parse |-> "ok"] :
        k \in {"timeout", "connect_error"}}
    \cup {[kind |-> "response", status |-> s, cl |-> c, parse |-> p] :
            s \in Statuses, c \in ContentLengths, p \in {"ok", "raises"}}

(* ------------------------ the page that is parsed --------------------- *)
\* An element of a page: its place in document order, what it is, the part of
\* the document it lies in and its payload (the text of a text node, the
\* content of a meta tag, the href of a link, the src of a script, what the
\* JSON-LD of a script holds).  The text of an "email" node is an e-mail
\* address and that of a "phone" node is a phone number: one match of the
\* e-mail pattern, respectively of the phone pattern.
El(pos, tag, sect, val) == [pos |-> pos, tag |-> tag, sect |-> sect, val |-> val]

Elements ==
    {El(1, "title", "head", "Acme"),
     El(2, "meta_description", "head", "desc"),
     El(3, "meta_keywords", "head", "k1, k2"),
     El(4, "meta_generator", "head", "WordPress"),
     El(5, "script_ld", "head", "Organization"),
     El(6, "script_ld", "head", "malformed"),
     El(7, "script_src", "body", "jquery.min.js"),
     El(8, "h1", "header", "Welcome"),
     El(9, "email", "body", "e1@a.com"),
     El(10, "email", "footer", "e2@a.com"),
     El(11, "a", "body", "facebook.com/x"),
     El(12, "a", "footer", "twitter.com/y"),
     El(13, "phrase", "nav", "about us"),
     El(14, "email", "body", "e3@a.com"),
     El(15, "phone", "body", "555-123-4567"),
     El(16, "phone", "body", "+1 555-123-4567")}

\* response.content: the raw content of a page, as the elements it holds
Pages == {P \in SUBSET Elements : Cardinality(P) <= MaxElems}

\* line 52: BeautifulSoup(response.content, 'html.parser'), the tree
parse(content) == content

RECURSIVE in_document_order(_)
in_document_order(S) ==
    IF S = {} THEN <<>>
    ELSE LET first == CHOOSE e \in S : \A f \in S : e.pos <= f.pos
         IN  <<first>> \o in_document_order(S \ {first})

\* soup.find_all(tag) and soup.find(tag), which is None or the first of them
find_all(soup, tag) == in_document_order({e \in soup : e.tag = tag})
find(soup, tag) == IF find_all(soup, tag) = <<>> THEN None ELSE find_all(soup, tag)[1]

\* the text nodes: get_text() of a tree joins their text in document order
TextTags == {"title", "h1", "email", "phrase", "phone"}
get_text(soup) ==
    LET nodes == in_document_order({e \in soup : e.tag \in TextTags})
    IN  [i \in 1..Len(nodes) |-> nodes[i].val]

\* seq[:cap]
Take(seq, cap) == SubSeq(seq, 1, IF Len(seq) < cap THEN Len(seq) ELSE cap)

\* list(set(xs)): the members once each, in the order of the set's iteration,
\* which for strings depends on the interpreter's hash seed
Orderings(S) ==
    {q \in [1..Cardinality(S) -> S] : \A i, j \in 1..Cardinality(S) : q[i] = q[j] => i = j}
list_of_set(S, cap) == {Take(q, cap) : q \in Orderings(S)}

EmptyDict == [k \in {} |-> ""]

(* --------------------- the extraction steps, 139-271 ------------------ *)
\* lines 139-142
extract_title(soup) == IF find(soup, "title") = None THEN "" ELSE find(soup, "title").val

\* lines 144-148
extract_description(soup) ==
    IF find(soup, "meta_description") = None THEN "" ELSE find(soup, "meta_description").val

\* lines 150-155: the content split at commas, each part stripped
split_commas(content) == IF content = "k1, k2" THEN <<"k1", "k2">> ELSE <<content>>
extract_keywords(soup) ==
    IF find(soup, "meta_keywords") = None THEN <<>>
    ELSE split_commas(find(soup, "meta_keywords").val)

\* lines 157-164: at most five headings of a level, a level without headings
\* has no key
extract_headings(soup) ==
    LET h_tags == find_all(soup, "h1")
    IN  IF h_tags = <<>> THEN EmptyDict
        ELSE [h1 |-> Take([i \in 1..Len(h_tags) |-> h_tags[i].val], 5)]

\* lines 169-170: every script, style, nav, header and footer element is
\* removed from the tree, with what it contains
decompose(soup) ==
    {e \in soup : /\ e.tag \notin {"script_src", "script_ld"}
                  /\ e.sect \notin {"nav", "header", "footer"}}

\* lines 166-185: the tree is changed, and the text of what is left of the
\* body is returned
extract_main_content(soup) ==
    [soup |-> decompose(soup),
     val |-> get_text({e \in decompose(soup) : e.sect # "head"})]

\* lines 198-199: re.findall with a pattern that has one group returns, for
\* each match, what the group matched: the optional country code with its
\* separator, '' when the number has none
findall_group(match) == IF match = "+1 555-123-4567" THEN "+1 " ELSE ""

\* lines 187-202: the e-mail addresses of the tree's text, at most five, and
\* what findall returns for its phone numbers, at most five
extract_contact_info(soup) ==
    {[emails |-> l, phones |-> p] :
        l \in list_of_set({e.val : e \in {f \in soup : f.tag = "email"}}, 5),
        p \in list_of_set({findall_group(e.val) : e \in {f \in soup : f.tag = "phone"}}, 5)}

\* lines 204-215: the links of the tree to a social domain, at most ten
extract_social_links(soup) ==
    list_of_set({e.val : e \in {f \in soup : f.tag = "a"}}, 10)

\* lines 217-242: the first JSON-LD script if it parses to an Organization
\* (json.loads failing is swallowed), then the phrases of the tree's text
json_ld_info(soup) ==
    IF find(soup, "script_ld") # None /\ find(soup, "script_ld").val = "Organization"
    THEN [name |-> "Acme", description |-> "", industry |-> "Organization"]
    ELSE EmptyDict
has_phrase(soup, phrase) == \E i \in DOMAIN get_text(soup) : get_text(soup)[i] = phrase
extract_business_info(soup) ==
    (IF has_phrase(soup, "services") THEN [has_services_section |-> TRUE] ELSE EmptyDict)
    @@ (IF has_phrase(soup, "about us") THEN [has_about_section |-> TRUE] ELSE EmptyDict)
    @@ json_ld_info(soup)

\* lines 244-266: a framework per script src that names one, and the content
\* of the generator meta tag; list(set(...)) of them
framework(src) == IF src = "jquery.min.js" THEN "jQuery" ELSE ""
extract_technologies(soup) ==
    list_of_set(({framework(e.val) : e \in {f \in soup : f.tag = "script_src"}} \ {""})
                \cup {e.val : e \in {f \in soup : f.tag = "meta_generator"}},
                Cardinality(soup))

\* what a step may return for a tree
step_values(step, soup) ==
    CASE step = "title" -> {extract_title(soup)}
      [] step = "description" -> {extract_description(soup)}
      [] step = "keywords" -> {extract_keywords(soup)}
      [] step = "headings" -> {extract_headings(soup)}
      [] step = "main_content" -> {extract_main_content(soup).val}
      [] step = "contact_info" -> extract_contact_info(soup)
      [] step = "social_links" -> extract_social_links(soup)
      [] step = "business_info" -> {extract_business_info(soup)}
      [] step = "technologies" -> extract_technologies(soup)

\* lines 58-66, in the order in which the dict display evaluates them
Steps == <<"title", "description", "keywords", "headings", "main_content",
           "contact_info", "social_links", "business_info", "technologies">>

\* lines 58-66 for content that holds no element: every step has one value
NoContent == {}
extracted_no_content ==
    [step \in {Steps[i] : i \in 1..Len(Steps)} |->
        CHOOSE v \in step_values(step, parse(NoContent)) : TRUE]

(* ------------------ WebScraperService.scrape_website ------------------ *)
ScrapeFailure(url, error) == [url |-> url, error |-> error, success |-> FALSE]
\* lines 55-69.  The responses of FetchNets have no content; scraped_at is the
\* clock reading 0.  What the steps make of a page is the subject of SpecExtract.
ScrapeSuccess(url, cleaned_url) ==
    [url |-> cleaned_url, original_url |-> url, success |-> TRUE]
    @@ extracted_no_content @@ [scraped_at |-> 0]

\* lines 45-47: content_length and int(content_length) > self.max_content_length
content_length_check(cl) ==
    IF cl.kind \in {"absent", "empty"} THEN "pass"
    ELSE IF cl.kind = "garbage" THEN "ValueError"
    ELSE IF cl.n > max_content_length THEN "too_large"
    ELSE "pass"

\* lines 41-71: the part of the try block after URL validation.  client.get is
\* not a streaming request: it returns once the body has been read.
scrape_fetch(url, cleaned_url, net) ==
    IF net.kind = "timeout"
    THEN Raise(Exc("TimeoutException", "timed out"), <<"request">>)
    ELSE IF net.kind = "connect_error"
    THEN Raise(Exc("ConnectError", "connection failed"), <<"request">>)
    ELSE LET ev == <<"request", "read_body">> IN
         IF content_length_check(net.cl) = "ValueError"
         THEN Raise(Exc("ValueError", "invalid literal for int()"), ev)
         ELSE IF content_length_check(net.cl) = "too_large"
         THEN Return(ScrapeFailure(url, "Content too large"), ev)
         ELSE IF ~is_success(net.status)
         THEN Raise(HTTPStatusError(net.status), ev)
         ELSE IF net.parse = "raises"
         THEN Raise(Exc("Exception", "parse error"), ev)
         ELSE Return(ScrapeSuccess(url, cleaned_url), ev)

\* lines 35-71: the try block
scrape_try(url, net) ==
    LET cleaned_url == clean_url(url)
    IN  IF cleaned_url = None
        THEN Return(ScrapeFailure(url, "Invalid URL format"), <<>>)
        ELSE scrape_fetch(url, cleaned_url, net)

\* lines 73-81: the except clauses
scrape_except_reraise_other(url, r) ==
    IF r.kind = "return" THEN r
    ELSE IF r.exc.type = "TimeoutException"
    THEN Return(ScrapeFailure(url, "Request timeout"), r.events)
    ELSE IF r.exc.type = "HTTPStatusError"
    THEN Return(ScrapeFailure(url, FmtHTTP(r.exc.status)), r.events)
    ELSE r

scrape_except_generic(url, r) ==
    IF r.kind = "return" THEN r
    ELSE Return(ScrapeFailure(url, r.exc.msg), r.events)

scrape_except(url, r) ==
    IF r.kind = "return" THEN r
    ELSE IF r.exc.type = "TimeoutException"
    THEN Return(ScrapeFailure(url, "Request timeout"), r.events)
    ELSE IF r.exc.type = "HTTPStatusError"
    THEN Return(ScrapeFailure(url, FmtHTTP(r.exc.status)), r.events)
    ELSE Return(ScrapeFailure(url, r.exc.msg), r.events)

scrape_website(url, net) == scrape_except(url, scrape_try(url, net))

(* ----------------------- the network, for a send ---------------------- *)
\* The body of a 2xx answer of the Gmail API: a JSON object with an 'id', a
\* JSON object without one, JSON that is not an object, or no JSON at all.
SendNets ==
    {[kind |-> k, status |-> 0, json |-> "garbage"] : k \in {"timeout", "connect_error"}}
    \cup {[kind |-> "response", status |-> s, json |-> j] :
            s \in Statuses, j \in {"dict_id", "dict_noid", "not_dict", "garbage"}}

\* f"HTTP {status_code}: {text}"
FmtHTTPText(status) ==
    CASE status = 404 -> "HTTP 404: body"
      [] status = 500 -> "HTTP 500: body"
      [] OTHER -> "HTTP ?: body"

(* ------------------------ GmailService.send_email --------------------- *)
SendFailure(to_email, subject, error) ==
    [success |-> FALSE, error |-> error, to |-> to_email, subject |-> subject]
SendSuccess(to_email, subject, message_id) ==
    [success |-> TRUE, message_id |-> message_id, thread_id |-> message_id,
     to |-> to_email, subject |-> subject]

\* lines 37-76: the try block.  MIMEText(body, 'plain') raises when body is
\* not a string; result.get raises when the JSON answer is not an object.
send_try(to_email, subject, body, net) ==
    IF body.type # "str"
    THEN Raise(Exc("AttributeError", "object has no attribute 'encode'"), <<>>)
    ELSE IF net.kind = "timeout"
    THEN Raise(Exc("TimeoutException", "timed out"), <<"request">>)
    ELSE IF net.kind = "connect_error"
    THEN Raise(Exc("ConnectError", "connection failed"), <<"request">>)
    ELSE LET ev == <<"request", "read_body">> IN
         IF ~is_success(net.status)
         THEN Raise(HTTPStatusError(net.status), ev)
         ELSE IF net.json = "garbage"
         THEN Raise(Exc("JSONDecodeError", "Expecting value"), ev)
         ELSE IF net.json = "not_dict"
         THEN Raise(Exc("AttributeError", "object has no attribute 'get'"), ev)
         ELSE Return(SendSuccess(to_email, subject,
                                 IF net.json = "dict_id" THEN "msg-id" ELSE "None"), ev)

\* lines 78-93: the except clauses
send_except(to_email, subject, r) ==
    IF r.kind = "return" THEN r
    ELSE IF r.exc.type = "HTTPStatusError"
    THEN Return(SendFailure(to_email, subject, FmtHTTPText(r.exc.status)), r.events)
    ELSE Return(SendFailure(to_email, subject, r.exc.msg), r.events)

send_email(to_email, subject, body, net) ==
    send_except(to_email, subject, send_try(to_email, subject, body, net))

(* ======================= the two batch runners ======================== *)
(*  WebScraperService.scrape_multiple_websites  (scraper.py 83-115)        *)
(*  GmailService.send_bulk_emails               (gmail_service.py 95-159)  *)
(* One call of one of the two is modelled.  Each item has a task; a task   *)
(* runs without interruption between two awaits that suspend it, so each   *)
(* action below is one such stretch.                                       *)
VARIABLES
    runner,          \* "scrape" or "send": which batch call this is
    items,           \* urls, respectively emails: the input list
    max_concurrent,  \* the max_concurrent argument
    delay,           \* the delay_between_batches argument, in ticks
    pc,              \* "call", "gather", "returned", "raised" ("idle": no batch call)
    sem,             \* the semaphore's value
    st,              \* per task: "pending", "running", "sleeping", "done"
    res,             \* per task: what send_email returned (while sleeping), then
                     \* what the task returned or raised, as gather collects it
    wake,            \* per task: the time its asyncio.sleep ends
    now,             \* the clock, in ticks
    calls,           \* per task: number of calls of scrape_website / send_email
    called_at,       \* per task: the time of that call, -1 before it
    done_order,      \* the tasks that have ended, in the order in which they ended
    out,             \* what the batch call returned or raised
    fpc,             \* a single call of scrape_website or send_email:
    fcall,           \*   "ready" / "done" ("idle": none), its arguments,
    fret,            \*   and what it returned or raised
    page,            \* the raw content of a fetched page
    soup,            \* the tree parsed from it, as the extraction steps leave it
    xpc,             \* the next step of lines 52-69: "parse", a step, "scraped_at"
    rec,             \* the values of scraped_data computed so far
    clk,             \* the last reading of the clock by _get_current_timestamp
    xout,            \* the records returned by the extractions made so far
    req,             \* a request to an endpoint
    env,             \* what the collaborators answer: the token, the sheet
    hpc,             \* where its handler is: "request", "token", "sheet", "single",
                     \*   "scraping", "generating", "sending", "responded"
    loc,             \* the handler's local variables
    resp,            \* the response
    effects,         \* the collaborators called so far, in order
    state_store,     \* oauth.py's _state_store: CSRF state -> time it was issued
    wall,            \* the wall clock, time.time() and datetime.utcnow(), in seconds
    db,              \* the tables sessions and oauth_tokens
    acall,           \* the last call of an authentication endpoint, and its result
    ahist            \* what has happened: states issued and accepted, sessions
                     \*   logged out, numbers of clock advances and of tokens issued

batch_vars == <<runner, items, max_concurrent, delay, pc, sem, st, res, wake, now, calls,
                called_at, done_order, out>>
fetch_vars == <<fpc, fcall, fret>>
extract_vars == <<page, soup, xpc, rec, clk, xout>>
flow_vars == <<req, env, hpc, loc, resp, effects>>
auth_vars == <<state_store, wall, db, acall, ahist>>
vars == <<runner, items, max_concurrent, delay, pc, sem, st, res, wake, now, calls,
          called_at, done_order, out, fpc, fcall, fret, page, soup, xpc, rec, clk, xout,
          req, env, hpc, loc, resp, effects, state_store, wall, db, acall, ahist>>

NoOutcome == [kind |-> "none", val |-> NoVal, exc |-> NoExc, events |-> <<>>]
N == Len(items)
Tasks == 1..N

\* the items drawn for a batch
BatchUrls == {Str(<<"a">>), Str(<<"https://", "a", "/">>), Str(<<"/">>)}
BatchEmails ==
    {[to |-> "x@a.com", subject |-> "s", body |-> Str(<<"a">>)],
     [to |-> "y@b.com", subject |-> "s", body |-> Str(<<"a">>)],
     [to |-> "z@c.com", subject |-> "s"],
     [subject |-> "s", body |-> Str(<<"a">>)]}
BatchFetchNets ==
    {n \in FetchNets : /\ n.cl.kind = "absent"
                       /\ n.parse = "ok"
                       /\ n.kind \in {"timeout", "response"}
                       /\ n.status \in {0, 200, 404}}
BatchSendNets ==
    {n \in SendNets : /\ n.kind = "response"
                      /\ n.status \in {200, 500}
                      /\ n.json = "dict_id"}
DefaultFetchNet == CHOOSE n \in BatchFetchNets : n.kind = "timeout"

FetchIdle == fpc = "idle" /\ fcall = [fn |-> "none"] /\ fret = NoOutcome
ExtractIdle ==
    /\ page = {} /\ soup = {} /\ xpc = "idle" /\ rec = EmptyDict /\ clk = 0 /\ xout = <<>>

NoLocals ==
    [session_id |-> "unset", access_token |-> "unset", cols |-> EmptyDict, urls |-> <<>>,
     contacts |-> <<>>, gi |-> 0, gen_calls |-> <<>>]
NoResponse == [status |-> 0, detail |-> "", body |-> EmptyDict]
FlowIdle ==
    /\ req = [endpoint |-> "none"] /\ env = EmptyDict /\ hpc = "idle"
    /\ loc = NoLocals /\ resp = NoResponse /\ effects = <<>>

EmptyDb == [sessions |-> EmptyDict, oauth_tokens |-> <<>>]
NoHistory ==
    [issued_at |-> EmptyDict, accepted |-> EmptyDict, logged_out |-> {}, advances |-> 0,
     minted |-> 0]
AuthIdle ==
    /\ state_store = EmptyDict /\ wall = 0 /\ db = EmptyDb
    /\ acall = [op |-> "none"] /\ ahist = NoHistory

Init ==
    /\ runner \in {"scrape", "send"}
    /\ items \in SeqsUpTo(IF runner = "scrape" THEN BatchUrls ELSE BatchEmails, MaxN)
    /\ max_concurrent \in (-1)..MaxConc
    /\ delay \in (IF runner = "send" THEN 0..MaxDelay ELSE {0})
    /\ pc = "call"
    /\ sem = 0
    /\ st = [i \in 1..Len(items) |-> "pending"]
    /\ res = [i \in 1..Len(items) |-> NoOutcome]
    /\ wake = [i \in 1..Len(items) |-> 0]
    /\ now = 0
    /\ calls = [i \in 1..Len(items) |-> 0]
    /\ called_at = [i \in 1..Len(items) |-> -1]
    /\ done_order = <<>>
    /\ out = NoOutcome
    /\ FetchIdle
    /\ ExtractIdle
    /\ FlowIdle
    /\ AuthIdle

(* ------- asyncio.Semaphore(max_concurrent); the tasks are made ------- *)
\* Semaphore.__init__ raises ValueError for a negative value and accepts zero
semaphore_rejects(value) == value < 0

Start ==
    /\ pc = "call"
    /\ IF semaphore_rejects(max_concurrent)
       THEN /\ pc' = "raised"
            /\ out' = Raise(Exc("ValueError", "Semaphore initial value must be >= 0"), <<>>)
            /\ sem' = sem
       ELSE /\ pc' = "gather"
            /\ sem' = max_concurrent
            /\ out' = out
    /\ UNCHANGED <<runner, items, max_concurrent, delay, st, res, wake, now, calls, called_at,
                   done_order>>
    /\ UNCHANGED <<fetch_vars, extract_vars, flow_vars, auth_vars>>

(* ------------------------ async with semaphore ------------------------ *)
\* Semaphore.acquire goes through without waiting only while the value is positive
can_acquire_unguarded(value) == TRUE

can_acquire(value) == value > 0

\* the tasks inside `async with semaphore`
holding == {i \in Tasks : st[i] \in {"running", "sleeping"}}

\* email_data['to'], email_data['subject'], email_data['body']
MissingKey(email_data) ==
    IF "to" \notin DOMAIN email_data THEN "to"
    ELSE IF "subject" \notin DOMAIN email_data THEN "subject"
    ELSE IF "body" \notin DOMAIN email_data THEN "body"
    ELSE ""

(* --------- scrape_with_semaphore (scraper.py 96-98), first part -------- *)
\* The task acquires the semaphore and calls scrape_website.  An invalid URL
\* makes scrape_website return without awaiting anything, and the task ends
\* in the same stretch; otherwise the task is suspended on client.get.
ScrapeEnter(i) ==
    /\ pc = "gather" /\ runner = "scrape"
    /\ st[i] = "pending"
    /\ can_acquire(sem)
    /\ calls' = [calls EXCEPT ![i] = @ + 1]
    /\ called_at' = [called_at EXCEPT ![i] = now]
    /\ IF clean_url(items[i]) = None
       THEN /\ res' = [res EXCEPT ![i] = scrape_website(items[i], DefaultFetchNet)]
            /\ st' = [st EXCEPT ![i] = "done"]
            /\ done_order' = Append(done_order, i)
            /\ sem' = sem
       ELSE /\ st' = [st EXCEPT ![i] = "running"]
            /\ sem' = sem - 1
            /\ UNCHANGED <<res, done_order>>
    /\ UNCHANGED <<runner, items, max_concurrent, delay, pc, wake, now, out>>
    /\ UNCHANGED <<fetch_vars, extract_vars, flow_vars, auth_vars>>

\* client.get ends (answer, timeout); scrape_website returns; the task leaves
\* the `async with` block and ends.
ScrapeFinish(i) ==
    /\ pc = "gather" /\ runner = "scrape"
    /\ st[i] = "running"
    /\ \E net \in BatchFetchNets :
          res' = [res EXCEPT ![i] = scrape_website(items[i], net)]
    /\ st' = [st EXCEPT ![i] = "done"]
    /\ done_order' = Append(done_order, i)
    /\ sem' = sem + 1
    /\ UNCHANGED <<runner, items, max_concurrent, delay, pc, wake, now, calls, called_at, out>>
    /\ UNCHANGED <<fetch_vars, extract_vars, flow_vars, auth_vars>>

(* ------- send_with_semaphore (gmail_service.py 117-128), by parts ------ *)
\* asyncio.sleep(delay) ends once the delay has elapsed
sleep_over_at_once(t, w) == TRUE

sleep_over(t, w) == t >= w

\* The task acquires the semaphore and evaluates the arguments of send_email:
\* a missing key raises KeyError, which leaves the `async with` block and ends
\* the task.  A body that is no string makes send_email return without
\* awaiting anything, and the task goes on to asyncio.sleep.
SendEnter(i) ==
    /\ pc = "gather" /\ runner = "send"
    /\ st[i] = "pending"
    /\ can_acquire(sem)
    /\ IF MissingKey(items[i]) # ""
       THEN /\ res' = [res EXCEPT ![i] = Raise(Exc("KeyError", MissingKey(items[i])), <<>>)]
            /\ st' = [st EXCEPT ![i] = "done"]
            /\ done_order' = Append(done_order, i)
            /\ UNCHANGED <<sem, calls, called_at, wake>>
       ELSE /\ calls' = [calls EXCEPT ![i] = @ + 1]
            /\ called_at' = [called_at EXCEPT ![i] = now]
            /\ done_order' = done_order
            /\ sem' = sem - 1
            /\ IF items[i].body.type # "str"
               THEN /\ res' = [res EXCEPT ![i] =
                          send_email(items[i].to, items[i].subject, items[i].body,
                                     CHOOSE n \in BatchSendNets : TRUE)]
                    /\ st' = [st EXCEPT ![i] = "sleeping"]
                    /\ wake' = [wake EXCEPT ![i] = now + delay]
               ELSE /\ st' = [st EXCEPT ![i] = "running"]
                    /\ UNCHANGED <<res, wake>>
    /\ UNCHANGED <<runner, items, max_concurrent, delay, pc, now, out>>
    /\ UNCHANGED <<fetch_vars, extract_vars, flow_vars, auth_vars>>

\* client.post ends; send_email returns; the task starts asyncio.sleep
SendFinish(i) ==
    /\ pc = "gather" /\ runner = "send"
    /\ st[i] = "running"
    /\ \E net \in BatchSendNets :
          res' = [res EXCEPT ![i] =
                     send_email(items[i].to, items[i].subject, items[i].body, net)]
    /\ st' = [st EXCEPT ![i] = "sleeping"]
    /\ wake' = [wake EXCEPT ![i] = now + delay]
    /\ UNCHANGED <<runner, items, max_concurrent, delay, pc, sem, now, calls, called_at,
                   done_order, out>>
    /\ UNCHANGED <<fetch_vars, extract_vars, flow_vars, auth_vars>>

\* asyncio.sleep ends; the task returns its result and leaves `async with`
SendWake(i) ==
    /\ pc = "gather" /\ runner = "send"
    /\ st[i] = "sleeping"
    /\ sleep_over(now, wake[i])
    /\ st' = [st EXCEPT ![i] = "done"]
    /\ done_order' = Append(done_order, i)
    /\ sem' = sem + 1
    /\ UNCHANGED <<runner, items, max_concurrent, delay, pc, res, wake, now, calls, called_at,
                   out>>
    /\ UNCHANGED <<fetch_vars, extract_vars, flow_vars, auth_vars>>

\* Time passes: while some task sleeps, and for at most MaxTime ticks in all
\* while none does but a send is in flight.
Tick ==
    /\ pc = "gather" /\ runner = "send"
    /\ \/ \E i \in Tasks : st[i] = "sleeping" /\ now < wake[i]
       \/ (\E i \in Tasks : st[i] = "running") /\ now < MaxTime
    /\ now' = now + 1
    /\ UNCHANGED <<runner, items, max_concurrent, delay, pc, sem, st, res, wake, calls,
                   called_at, done_order, out>>
    /\ UNCHANGED <<fetch_vars, extract_vars, flow_vars, auth_vars>>

(* ------------- results = await asyncio.gather of the tasks ------------ *)
\* gather ends once every task has ended (at once when there is no task) ...
gather_complete_any == \E i \in Tasks : st[i] = "done"

gather_complete == \A i \in Tasks : st[i] = "done"

\* ... and lists what the tasks returned or raised in the order of the tasks
gather_result_by_completion(i) == res[done_order[i]]

gather_result(i) == res[i]

(* ------------ scrape_multiple_websites, lines 103-115 ----------------- *)
scrape_processed(i) ==
    LET result == gather_result(i)
    IN  IF result.kind = "raise"
        THEN [url |-> items[i], error |-> result.exc.msg, success |-> FALSE]
        ELSE result.val

ScrapeCollect ==
    /\ pc = "gather" /\ runner = "scrape"
    /\ gather_complete
    /\ out' = Return([i \in Tasks |-> scrape_processed(i)], <<>>)
    /\ pc' = "returned"
    /\ UNCHANGED <<runner, items, max_concurrent, delay, sem, st, res, wake, now, calls,
                   called_at, done_order>>
    /\ UNCHANGED <<fetch_vars, extract_vars, flow_vars, auth_vars>>

(* ---------------- send_bulk_emails, lines 134-159 --------------------- *)
\* emails[i]['to'] of line 143 raises KeyError when the item has no 'to'
send_loop_raises ==
    \E i \in Tasks : gather_result(i).kind = "raise" /\ "to" \notin DOMAIN items[i]

send_detailed(i) ==
    LET result == gather_result(i)
    IN  IF result.kind = "raise"
        THEN [to |-> items[i].to, success |-> FALSE, error |-> result.exc.msg]
        ELSE result.val

\* every result counted as sent
send_is_successful_always(i) == TRUE

\* lines 139-147: elif result.get('success')
send_is_successful(i) == gather_result(i).kind = "return" /\ gather_result(i).val.success

send_summary ==
    [total_emails |-> Len(items),
     successful |-> Cardinality({i \in Tasks : send_is_successful(i)}),
     failed |-> Cardinality({i \in Tasks : ~send_is_successful(i)}),
     results |-> [i \in Tasks |-> send_detailed(i)]]

SendCollect ==
    /\ pc = "gather" /\ runner = "send"
    /\ gather_complete
    /\ IF send_loop_raises
       THEN /\ out' = Raise(Exc("KeyError", "to"), <<>>)
            /\ pc' = "raised"
       ELSE /\ out' = Return(send_summary, <<>>)
            /\ pc' = "returned"
    /\ UNCHANGED <<runner, items, max_concurrent, delay, sem, st, res, wake, now, calls,
                   called_at, done_order>>
    /\ UNCHANGED <<fetch_vars, extract_vars, flow_vars, auth_vars>>

Next ==
    \/ Start
    \/ \E i \in Tasks : ScrapeEnter(i)
    \/ \E i \in Tasks : ScrapeFinish(i)
    \/ ScrapeCollect
    \/ \E i \in Tasks : SendEnter(i)
    \/ \E i \in Tasks : SendFinish(i)
    \/ \E i \in Tasks : SendWake(i)
    \/ Tick
    \/ SendCollect

Spec == Init /\ [][Next]_vars

(* ============ single calls of scrape_website and send_email =========== *)
UrlInputs == {Str(s) : s \in SeqsUpTo(Pieces, MaxLen)} \cup {None, AnInt}

ScrapeCalls == {[fn |-> "scrape_website", url |-> u, net |-> n] : u \in UrlInputs, n \in FetchNets}

SendCalls ==
    {[fn |-> "send_email", to |-> "x@a.com", subject |-> "s", body |-> b, net |-> n] :
        b \in {Str(<<"a">>), None}, n \in SendNets}

BatchIdle ==
    /\ runner = "none" /\ items = <<>> /\ max_concurrent = 0 /\ delay = 0
    /\ pc = "idle" /\ sem = 0 /\ st = <<>> /\ res = <<>> /\ wake = <<>> /\ now = 0
    /\ calls = <<>> /\ called_at = <<>> /\ done_order = <<>> /\ out = NoOutcome

FetchInit ==
    /\ BatchIdle /\ ExtractIdle /\ FlowIdle /\ AuthIdle
    /\ fpc = "ready"
    /\ fcall \in ScrapeCalls \cup SendCalls
    /\ fret = NoOutcome

CallScrape ==
    /\ fpc = "ready" /\ fcall.fn = "scrape_website"
    /\ fret' = scrape_website(fcall.url, fcall.net)
    /\ fpc' = "done"
    /\ UNCHANGED fcall
    /\ UNCHANGED <<batch_vars, extract_vars, flow_vars, auth_vars>>

CallSend ==
    /\ fpc = "ready" /\ fcall.fn = "send_email"
    /\ fret' = send_email(fcall.to, fcall.subject, fcall.body, fcall.net)
    /\ fpc' = "done"
    /\ UNCHANGED fcall
    /\ UNCHANGED <<batch_vars, extract_vars, flow_vars, auth_vars>>

FetchNext == CallScrape \/ CallSend

SpecFetch == FetchInit /\ [][FetchNext]_vars

(* ============== _clean_url applied to its own result ================== *)
CleanCalls == {[fn |-> "clean_url", url |-> u] : u \in UrlInputs}

CleanInit ==
    /\ BatchIdle /\ ExtractIdle /\ FlowIdle /\ AuthIdle
    /\ fpc = "ready"
    /\ fcall \in CleanCalls
    /\ fret = NoOutcome

\* _clean_url(url), and _clean_url of what it returned
CallClean ==
    /\ fpc = "ready" /\ fcall.fn = "clean_url"
    /\ fret' = Return([once |-> clean_url(fcall.url),
                       twice |-> clean_url(clean_url(fcall.url))], <<>>)
    /\ fpc' = "done"
    /\ UNCHANGED fcall
    /\ UNCHANGED <<batch_vars, extract_vars, flow_vars, auth_vars>>

CleanNext == CallClean

SpecClean == CleanInit /\ [][CleanNext]_vars

(* ========= lines 52-69 of scrape_website: a page is extracted ========= *)
\* The same raw content is extracted twice, by two calls of scrape_website
\* that got it as their response, each with the hash seed of its interpreter.
ExtractedUrl == Str(<<"a">>)

ExtractInit ==
    /\ BatchIdle /\ FetchIdle /\ FlowIdle /\ AuthIdle
    /\ page \in Pages
    /\ soup = {}
    /\ xpc = "parse"
    /\ rec = EmptyDict
    /\ clk = 0
    /\ xout = <<>>

\* line 52
Parse ==
    /\ xpc = "parse" /\ Len(xout) < 2
    /\ soup' = parse(page)
    /\ rec' = EmptyDict
    /\ xpc' = Steps[1]
    /\ UNCHANGED <<page, clk, xout>>
    /\ UNCHANGED <<batch_vars, fetch_vars, flow_vars, auth_vars>>

after(step) ==
    IF \E i \in 1..(Len(Steps) - 1) : Steps[i] = step
    THEN Steps[(CHOOSE i \in 1..Len(Steps) : Steps[i] = step) + 1]
    ELSE "scraped_at"

\* lines 58-61 and 63-66: a step that reads the tree
ExtractStep(step) ==
    /\ xpc = step /\ step # "main_content"
    /\ \E v \in step_values(step, soup) : rec' = (step :> v) @@ rec
    /\ xpc' = after(step)
    /\ UNCHANGED <<page, soup, clk, xout>>
    /\ UNCHANGED <<batch_vars, fetch_vars, flow_vars, auth_vars>>

\* line 62: the step that changes the tree
ExtractMainContent ==
    /\ xpc = "main_content"
    /\ rec' = ("main_content" :> extract_main_content(soup).val) @@ rec
    /\ soup' = extract_main_content(soup).soup
    /\ xpc' = after("main_content")
    /\ UNCHANGED <<page, clk, xout>>
    /\ UNCHANGED <<batch_vars, fetch_vars, flow_vars, auth_vars>>

\* lines 56-57 and 67-71: datetime.utcnow() is read, scraped_data is returned
ExtractReturn ==
    /\ xpc = "scraped_at"
    /\ \E t \in clk..MaxTime :
          /\ clk' = t
          /\ xout' = Append(xout, ("scraped_at" :> t) @@ rec
                                   @@ ScrapeSuccess(ExtractedUrl, clean_url(ExtractedUrl)))
    /\ xpc' = "parse"
    /\ rec' = EmptyDict
    /\ UNCHANGED <<page, soup>>
    /\ UNCHANGED <<batch_vars, fetch_vars, flow_vars, auth_vars>>

ExtractNext ==
    \/ Parse
    \/ \E step \in {Steps[i] : i \in 1..Len(Steps)} : ExtractStep(step)
    \/ ExtractMainContent
    \/ ExtractReturn

SpecExtract == ExtractInit /\ [][ExtractNext]_vars

(* ======================= the endpoints, by handler ==================== *)
(*  routes/auth.py and routes/routes.py define the same handlers for       *)
(*  /sheets/data, /sheets/{id}/info, /sheets/scrape and /scrape/single;    *)
(*  routes/routes.py defines /campaign/send as well.  One request is       *)
(*  handled.  Python's None is written "None" where the value is text.     *)
Endpoints == {"sheets_data", "sheets_info", "sheets_scrape", "scrape_single", "campaign_send"}
AuthEndpoints == Endpoints \ {"campaign_send"}

\* main.py line 21: the application includes the router of routes/auth.py and
\* no other.  A request comes in through the application, or through the
\* router of routes/routes.py included by an application that has it.
served_by(via, endpoint) ==
    IF via = "routes" THEN "routes"
    ELSE IF endpoint \in AuthEndpoints THEN "auth"
    ELSE "none"

\* `not x` for text or None
is_not(x) == x \in {"None", ""}

\* get_current_session, the dependency of every handler: routes/auth.py 15-21
\* (the cookie is not read) and routes/routes.py 21-26
HardcodedSession == "689c999f-b423-4f0b-a39a-47bd948ee8e4"
CookieSession == "sid-1"
get_current_session(module, cookie) ==
    IF module = "auth" THEN HardcodedSession ELSE cookie

\* The name of a column, in a header cell or in a request: its letters in
\* lower case, whether it is written in upper case instead, and whether it has
\* a blank before and after it.
Name(base, upper, padded) == [base |-> base, upper |-> upper, padded |-> padded]
Plain(base) == Name(base, FALSE, FALSE)

\* str.strip() and str.lower() of a name
name_strip(name) == [name EXCEPT !.padded = FALSE]
name_lower(name) == [name EXCEPT !.upper = FALSE]

\* the column names of a campaign request: the defaults of EmailCampaignRequest,
\* the e-mail column in upper case, the e-mail column with blanks around it,
\* the company column named as the e-mail column is
DefaultColumns ==
    [email_column |-> Plain("email_id"), company_column |-> Plain("company_name"),
     website_column |-> Plain("website_link")]
CampaignColumns ==
    {DefaultColumns,
     [DefaultColumns EXCEPT !.email_column = Name("email_id", TRUE, FALSE)],
     [DefaultColumns EXCEPT !.email_column = Name("email_id", FALSE, TRUE)],
     [DefaultColumns EXCEPT !.company_column = Plain("email_id")]}

\* the requests; the numbers satisfy the request models (ge=1, delay ge=0.5):
\* a campaign has one cap for its two phases and the default delay, one tick
SimpleRequest(via, endpoint, cookie) ==
    [via |-> via, endpoint |-> endpoint, cookie |-> cookie, url |-> Str(<<"a">>),
     max_concurrent_scrapes |-> 1, max_concurrent_emails |-> 1, delay_between_emails |-> 1,
     url_column_name |-> Plain("website_link"), columns |-> DefaultColumns]
Requests ==
    LET Base == {SimpleRequest(v, e, c) :
                    v \in {"app", "routes"}, e \in Endpoints, c \in {"None", CookieSession}}
    IN  {r \in Base : r.endpoint \in {"sheets_data", "sheets_info"}}
        \cup {[r EXCEPT !.url = u] :
                r \in {q \in Base : q.endpoint = "scrape_single"},
                u \in {Str(<<"a">>), Str(<<"/">>)}}
        \cup {[r EXCEPT !.max_concurrent_scrapes = mc] :
                r \in {q \in Base : q.endpoint = "sheets_scrape"}, mc \in 1..MaxConc}
        \cup {[r EXCEPT !.url_column_name = Name("website_link", TRUE, TRUE)] :
                r \in {q \in Base : q.endpoint = "sheets_scrape"}}
        \cup {[r EXCEPT !.max_concurrent_scrapes = mc, !.max_concurrent_emails = mc] :
                r \in {q \in Base : q.endpoint = "campaign_send"}, mc \in 1..MaxConc}
        \cup {[r EXCEPT !.columns = c] :
                r \in {q \in Base : q.endpoint = "campaign_send"}, c \in CampaignColumns}

\* the sheet: a header row and rows of an e-mail address, a company and a
\* website; a cell may be empty
SheetHeaders == <<Plain("email_id"), Plain("company_name"), Plain("website_link")>>
SpacedHeaders ==
    <<Name("email_id", TRUE, TRUE), Plain("company_name"), Name("website_link", FALSE, TRUE)>>
SheetRows ==
    {<<"x@a.com", "Acme", Str(<<"a">>)>>,
     <<"z@c.com", "Gamma", Str(<<"/">>)>>,
     <<"", "Delta", Str(<<"sp", "a">>)>>}
SheetAnswers ==
    {[kind |-> "raise", values |-> <<>>], [kind |-> "values", values |-> <<>>],
     [kind |-> "values",
      values |-> <<<<Plain("email_id"), Plain("company_name")>>, <<"x@a.com", "Acme">>>>],
     [kind |-> "values",
      values |-> <<SpacedHeaders, <<"x@a.com", "Acme", Str(<<"a">>)>>>>]}
    \cup {[kind |-> "values", values |-> <<SheetHeaders>> \o rows] :
            rows \in SeqsUpTo(SheetRows, MaxN)}

\* what get_valid_access_token returns for the session it is asked about: a
\* token or None
Envs == {[token |-> t, sheet |-> a] : t \in {"None", "tok"}, a \in SheetAnswers}

FlowInit ==
    /\ BatchIdle /\ FetchIdle /\ ExtractIdle /\ AuthIdle
    /\ req \in Requests
    /\ env \in Envs
    /\ hpc = "request"
    /\ loc = NoLocals
    /\ resp = NoResponse
    /\ effects = <<>>

\* raise HTTPException(status_code, detail), or the response model returned
Answer(status, detail, body) ==
    /\ resp' = [status |-> status, detail |-> detail, body |-> body]
    /\ hpc' = "responded"

\* the handler awaits a call of scrape_multiple_websites or send_bulk_emails
BatchCall(r, its, mc, d) ==
    /\ runner' = r /\ items' = its /\ max_concurrent' = mc /\ delay' = d
    /\ pc' = "call" /\ sem' = 0
    /\ st' = [i \in 1..Len(its) |-> "pending"]
    /\ res' = [i \in 1..Len(its) |-> NoOutcome]
    /\ wake' = [i \in 1..Len(its) |-> 0]
    /\ calls' = [i \in 1..Len(its) |-> 0]
    /\ called_at' = [i \in 1..Len(its) |-> -1]
    /\ done_order' = <<>>
    /\ out' = NoOutcome
    /\ now' = now

\* the route is looked up and the dependency get_current_session runs
GetCurrentSession ==
    /\ hpc = "request"
    /\ LET module == served_by(req.via, req.endpoint)
           session_id == get_current_session(module, req.cookie)
       IN  IF module = "none"
           THEN Answer(404, "Not Found", EmptyDict) /\ loc' = loc
           ELSE IF is_not(session_id)
           THEN Answer(401, "No session found", EmptyDict) /\ loc' = loc
           ELSE /\ loc' = [loc EXCEPT !.session_id = session_id]
                /\ hpc' = "token"
                /\ resp' = resp
    /\ UNCHANGED <<req, env, effects>>
    /\ UNCHANGED <<batch_vars, fetch_vars, extract_vars, auth_vars>>

\* access_token = await oauth_manager.get_valid_access_token(session_id);
\* if not access_token: raise HTTPException(401)
token_missing_never(access_token) == FALSE

token_missing(access_token) == is_not(access_token)

GetToken ==
    /\ hpc = "token"
    /\ effects' = Append(effects, "get_valid_access_token")
    /\ loc' = [loc EXCEPT !.access_token = env.token]
    /\ IF token_missing(env.token)
       THEN Answer(401, "Unable to get valid access token. Please re-authenticate.", EmptyDict)
       ELSE /\ hpc' = IF req.endpoint = "scrape_single" THEN "single" ELSE "sheet"
            /\ resp' = resp
    /\ UNCHANGED <<req, env>>
    /\ UNCHANGED <<batch_vars, fetch_vars, extract_vars, auth_vars>>

\* /sheets/data and /sheets/{id}/info: the sheet is read and returned
SheetData ==
    /\ hpc = "sheet" /\ req.endpoint \in {"sheets_data", "sheets_info"}
    /\ effects' = Append(effects, "sheets_service")
    /\ IF env.sheet.kind = "raise"
       THEN Answer(500, "Failed to fetch sheet", EmptyDict)
       ELSE Answer(200, "", [values |-> env.sheet.values])
    /\ UNCHANGED <<req, env, loc>>
    /\ UNCHANGED <<batch_vars, fetch_vars, extract_vars, auth_vars>>

\* str(header).strip().lower()
header_key(header) == name_lower(name_strip(header))

\* routes/auth.py 236: request_data.url_column_name.strip().lower()
url_column_key(name) == name_lower(name_strip(name))

\* routes/auth.py 231-238: the first header equal to the requested name, 0 for none
column_index(headers, name) ==
    IF \E i \in 1..Len(headers) : header_key(headers[i]) = url_column_key(name)
    THEN CHOOSE i \in 1..Len(headers) :
            /\ header_key(headers[i]) = url_column_key(name)
            /\ \A j \in 1..(i - 1) : header_key(headers[j]) # url_column_key(name)
    ELSE 0

\* row numbers in the order of the loop over sheet_data["values"][1:]
RECURSIVE ascending(_)
ascending(S) ==
    IF S = {} THEN <<>>
    ELSE LET least == CHOOSE k \in S : \A j \in S : k <= j
         IN  <<least>> \o ascending(S \ {least})

\* routes/auth.py 246-252: the stripped, non-empty cells of the URL column
sheet_urls(values, col) ==
    LET Keep(k) == /\ col <= Len(values[k])
                   /\ ~Falsy(values[k][col])
                   /\ strip(values[k][col].s) # <<>>
        rows == ascending({k \in 2..Len(values) : Keep(k)})
    IN  [i \in 1..Len(rows) |-> Str(strip(values[rows[i]][col].s))]

\* /sheets/scrape, routes/auth.py 221-263: up to the call of scrape_multiple_websites
SheetScrapeUrls ==
    /\ hpc = "sheet" /\ req.endpoint = "sheets_scrape"
    /\ effects' = Append(effects, "sheets_service")
    /\ LET values == env.sheet.values
           col == column_index(values[1], req.url_column_name)
       IN  IF env.sheet.kind = "raise" \/ values = <<>> \/ col = 0 \/ sheet_urls(values, col) = <<>>
           THEN /\ IF env.sheet.kind = "raise"
                   THEN Answer(500, "Failed to scrape websites", EmptyDict)
                   ELSE IF values = <<>>
                   THEN Answer(400, "No data found in the specified range", EmptyDict)
                   ELSE IF col = 0
                   THEN Answer(400, "Column not found", EmptyDict)
                   ELSE Answer(400, "No URLs found in column", EmptyDict)
                /\ loc' = loc
                /\ UNCHANGED batch_vars
           ELSE /\ loc' = [loc EXCEPT !.urls = sheet_urls(values, col),
                                      !.cols = [url |-> col]]
                /\ hpc' = "scraping"
                /\ resp' = resp
                /\ BatchCall("scrape", sheet_urls(values, col), req.max_concurrent_scrapes, 0)
    /\ UNCHANGED <<req, env>>
    /\ UNCHANGED <<fetch_vars, extract_vars, auth_vars>>

\* models/sheets.py 34-48: ScrapedWebsiteData(**result) needs every field but error
ScrapedRequired ==
    {"url", "original_url", "title", "description", "keywords", "headings", "main_content",
     "contact_info", "social_links", "business_info", "technologies", "success", "scraped_at"}
validates(result) == ScrapedRequired \subseteq DOMAIN result

\* scrape_multiple_websites has returned or raised
batch_over == pc \in {"returned", "raised"}

\* /sheets/scrape, routes/auth.py 265-294: the response is built
ScrapedSheet ==
    /\ hpc = "scraping" /\ req.endpoint = "sheets_scrape"
    /\ batch_over
    /\ IF pc = "raised" \/ \E i \in Tasks : ~validates(out.val[i])
       THEN Answer(500, "Failed to scrape websites", EmptyDict)
       ELSE Answer(200, "",
                   [total_urls |-> Len(loc.urls),
                    successful_scrapes |-> Cardinality({i \in Tasks : out.val[i].success}),
                    failed_scrapes |-> Cardinality({i \in Tasks : ~out.val[i].success}),
                    scraped_data |-> out.val])
    /\ UNCHANGED <<req, env, loc, effects>>
    /\ UNCHANGED <<batch_vars, fetch_vars, extract_vars, auth_vars>>

\* /scrape/single, routes/auth.py 315-324
SingleScrape ==
    /\ hpc = "single"
    /\ effects' = Append(effects, "scrape_website")
    /\ \E net \in BatchFetchNets :
          LET scraped_result == scrape_website(req.url, net).val
          IN  IF validates(scraped_result)
              THEN Answer(200, "", scraped_result)
              ELSE Answer(500, "Failed to scrape website", EmptyDict)
    /\ UNCHANGED <<req, env, loc>>
    /\ UNCHANGED <<batch_vars, fetch_vars, extract_vars, auth_vars>>

(* --------------- /campaign/send, routes/routes.py 334-518 ------------- *)
\* lines 385, 387, 389: request_data.email_column.lower(), and so on
campaign_column_key(name) == name_lower(name)

\* the last of the numbers of a set, 0 when it has none
last_of(S) == IF S = {} THEN 0 ELSE CHOOSE i \in S : \A j \in S : j <= i

\* lines 379-390: each header goes to the first of the three names it equals
\* (if / elif / elif), and a later header of a column replaces an earlier one
campaign_columns(headers, columns) ==
    LET is_email(i) == header_key(headers[i]) = campaign_column_key(columns.email_column)
        is_company(i) == /\ ~is_email(i)
                         /\ header_key(headers[i]) = campaign_column_key(columns.company_column)
        is_website(i) == /\ ~is_email(i) /\ ~is_company(i)
                         /\ header_key(headers[i]) = campaign_column_key(columns.website_column)
    IN  [email |-> last_of({i \in 1..Len(headers) : is_email(i)}),
         company |-> last_of({i \in 1..Len(headers) : is_company(i)}),
         website |-> last_of({i \in 1..Len(headers) : is_website(i)})]

Max3(a, b, c) == IF a >= b /\ a >= c THEN a ELSE IF b >= c THEN b ELSE c

\* lines 398-413: the rows that have a non-empty e-mail, company and website
sheet_contacts(values, cols) ==
    LET Keep(k) == /\ Len(values[k]) >= Max3(cols.email, cols.company, cols.website)
                   /\ ~is_not(values[k][cols.email])
                   /\ ~is_not(values[k][cols.company])
                   /\ ~Falsy(values[k][cols.website])
                   /\ strip(values[k][cols.website].s) # <<>>
        rows == ascending({k \in 2..Len(values) : Keep(k)})
    IN  [i \in 1..Len(rows) |->
            [email |-> values[rows[i]][cols.email],
             company_name |-> values[rows[i]][cols.company],
             website_url |-> Str(strip(values[rows[i]][cols.website].s)),
             row_number |-> rows[i]]]

\* lines 360-428: the sheet is read, the contacts are listed and
\* scrape_multiple_websites is called
CampaignContacts ==
    /\ hpc = "sheet" /\ req.endpoint = "campaign_send"
    /\ effects' = Append(effects, "sheets_service")
    /\ LET values == env.sheet.values
           cols == campaign_columns(values[1], req.columns)
           missing == cols.email = 0 \/ cols.company = 0 \/ cols.website = 0
       IN  IF env.sheet.kind = "raise"
           THEN Answer(500, "Failed to execute email campaign", EmptyDict)
                /\ loc' = loc /\ UNCHANGED batch_vars
           ELSE IF Len(values) < 2
           THEN Answer(400, "No data found in the specified range or missing header row",
                       EmptyDict)
                /\ loc' = loc /\ UNCHANGED batch_vars
           ELSE IF missing
           THEN Answer(400, "Required columns not found", EmptyDict)
                /\ loc' = loc /\ UNCHANGED batch_vars
           ELSE IF sheet_contacts(values, cols) = <<>>
           THEN Answer(400, "No valid contacts found with all required fields", EmptyDict)
                /\ loc' = loc /\ UNCHANGED batch_vars
           ELSE LET contacts == sheet_contacts(values, cols) IN
                /\ loc' = [loc EXCEPT !.contacts = contacts,
                                      !.cols = cols,
                                      !.gen_calls = [i \in 1..Len(contacts) |-> 0]]
                /\ hpc' = "scraping"
                /\ resp' = resp
                /\ BatchCall("scrape", [i \in 1..Len(contacts) |-> contacts[i].website_url],
                             req.max_concurrent_scrapes, 0)
    /\ UNCHANGED <<req, env>>
    /\ UNCHANGED <<fetch_vars, extract_vars, auth_vars>>

\* lines 430-432: contact["website_data"] = scraped_results[i]
ScrapedCampaign ==
    /\ hpc = "scraping" /\ req.endpoint = "campaign_send"
    /\ batch_over
    /\ IF pc = "raised"
       THEN Answer(500, "Failed to execute email campaign", EmptyDict) /\ loc' = loc
       ELSE /\ loc' = [loc EXCEPT
                         !.contacts = [i \in DOMAIN loc.contacts |->
                                          [website_data |-> out.val[i]] @@ loc.contacts[i]],
                         !.gi = 1]
            /\ hpc' = "generating"
            /\ resp' = resp
    /\ UNCHANGED <<req, env, effects>>
    /\ UNCHANGED <<batch_vars, fetch_vars, extract_vars, auth_vars>>

\* gemini_service.generate_personalized_email returns the generated e-mail, or,
\* when anything in it raised, its own fallback with the error (lines 187-205)
GeminiAnswers ==
    {[subject |-> "generated subject", body |-> Str(<<"a">>), generated_successfully |-> TRUE],
     [subject |-> "Quick question", body |-> Str(<<"a", "sp", "a">>),
      generated_successfully |-> FALSE, error |-> "gemini error"]}

\* lines 447-454: the e-mail of a contact whose website was not scraped
fallback_email ==
    [subject |-> "Exploring partnership opportunities", body |-> Str(<<"a", "/", "a">>),
     generated_successfully |-> FALSE, error |-> "Website scraping failed"]

\* line 439: if contact["website_data"].get("success")
should_generate_always(website_data) == TRUE

should_generate(website_data) == "success" \in DOMAIN website_data /\ website_data.success

\* lines 438-454: one turn of the loop over the contacts
Generate ==
    /\ hpc = "generating" /\ loc.gi <= Len(loc.contacts)
    /\ LET i == loc.gi IN
       IF should_generate(loc.contacts[i].website_data)
       THEN /\ \E email_data \in GeminiAnswers :
                 loc' = [loc EXCEPT !.contacts[i] = [email_content |-> email_data] @@ @,
                                    !.gen_calls[i] = @ + 1,
                                    !.gi = @ + 1]
            /\ effects' = Append(effects, "generate_personalized_email")
       ELSE /\ loc' = [loc EXCEPT !.contacts[i] = [email_content |-> fallback_email] @@ @,
                                  !.gi = @ + 1]
            /\ effects' = effects
    /\ UNCHANGED <<req, env, hpc, resp>>
    /\ UNCHANGED <<batch_vars, fetch_vars, extract_vars, auth_vars>>

\* lines 458-474: emails_to_send is built and send_bulk_emails is called
emails_to_send(contacts) ==
    [i \in DOMAIN contacts |->
        [to |-> contacts[i].email,
         subject |-> contacts[i].email_content.subject,
         body |-> contacts[i].email_content.body]]

StartSend ==
    /\ hpc = "generating" /\ loc.gi > Len(loc.contacts)
    /\ hpc' = "sending"
    /\ BatchCall("send", emails_to_send(loc.contacts), req.max_concurrent_emails,
                 req.delay_between_emails)
    /\ UNCHANGED <<req, env, loc, resp, effects>>
    /\ UNCHANGED <<fetch_vars, extract_vars, auth_vars>>

\* d.get(key), None for a missing key, and Python's `a or b`
dict_get(d, key) == IF key \in DOMAIN d THEN d[key] ELSE "None"
py_or(a, b) == IF is_not(a) THEN b ELSE a

\* lines 476-493: the report of one contact
detailed_result(contact, send_result) ==
    [row_number |-> contact.row_number,
     email |-> contact.email,
     company_name |-> contact.company_name,
     website_url |-> contact.website_url,
     website_scraped |-> IF "success" \in DOMAIN contact.website_data
                         THEN contact.website_data.success ELSE FALSE,
     email_generated |-> contact.email_content.generated_successfully,
     email_sent |-> IF "success" \in DOMAIN send_result THEN send_result.success ELSE FALSE,
     subject |-> contact.email_content.subject,
     message_id |-> dict_get(send_result, "message_id"),
     error |-> py_or(dict_get(send_result, "error"), dict_get(contact.website_data, "error"))]

\* lines 476-509: send_bulk_emails has returned; the response is built
Report ==
    /\ hpc = "sending"
    /\ batch_over
    /\ IF pc = "raised"
       THEN Answer(500, "Failed to execute email campaign", EmptyDict)
       ELSE Answer(200, "",
                   [total_contacts |-> Len(loc.contacts),
                    emails_generated |->
                        Cardinality({i \in DOMAIN loc.contacts :
                                        loc.contacts[i].email_content.generated_successfully}),
                    emails_sent_successfully |-> out.val.successful,
                    emails_failed |-> out.val.failed,
                    detailed_results |->
                        [i \in DOMAIN loc.contacts |->
                            detailed_result(loc.contacts[i], out.val.results[i])]])
    /\ UNCHANGED <<req, env, loc, effects>>
    /\ UNCHANGED <<batch_vars, fetch_vars, extract_vars, auth_vars>>

FlowNext ==
    \/ GetCurrentSession
    \/ GetToken
    \/ SheetData
    \/ SheetScrapeUrls
    \/ ScrapedSheet
    \/ SingleScrape
    \/ CampaignContacts
    \/ ScrapedCampaign
    \/ Generate
    \/ StartSend
    \/ Report
    \/ Next

SpecFlow == FlowInit /\ [][FlowNext]_vars

(* ====================== sign-in and the sessions ======================= *)
(*  utils/oauth.py, utils/database.py and the handlers /login, /callback,  *)
(*  /logout and /me of routes/auth.py (routes/routes.py has the same        *)
(*  four).  One action is one call; the clock moves between calls.  The     *)
(*  database answers every call.                                            *)

\* secrets.token_urlsafe(32), the n-th one drawn: no two are equal
token_urlsafe(n) == IF n = 1 THEN "state-1" ELSE IF n = 2 THEN "state-2" ELSE "state-3"
\* a state parameter that generate_auth_url never produced
ForgedState == "state-forged"

\* security.generate_session_id(), the n-th one drawn
generate_session_id(n) == IF n = 1 THEN CookieSession ELSE IF n = 2 THEN "sid-2" ELSE "sid-3"

\* the n-th access token Google issues
google_access_token(n) ==
    IF n = 1 THEN "tok-1" ELSE IF n = 2 THEN "tok-2" ELSE IF n = 3 THEN "tok-3" ELSE "tok-4"

\* security.encrypt_token and decrypt_token: Fernet with the one key
encrypt_token(token) == [fernet |-> token]
decrypt_token(encrypted_token) == encrypted_token.fernet

\* security.hash_user_id
hash_user_id(email) == [sha256 |-> email]

\* seconds Google gives an access token
ExpiresIn == {1, STATE_TTL_SECONDS}
\* the steps of the clock between two calls
ClockSteps == {1, STATE_TTL_SECONDS}

\* the cookies a request can carry: none, or the id of a session
Cookies == {"None", HardcodedSession} \cup {generate_session_id(n) : n \in 1..MaxLogin}

\* oauth.py 42-52, validate_state: the comparison of line 47
state_expired_never(at, ts) == FALSE

state_expired(at, ts) == at - ts > STATE_TTL_SECONDS

\* validate_state(state): what it returns and the store it leaves
validate_state(store, at, state) ==
    IF state \notin DOMAIN store
    THEN [ok |-> FALSE, store |-> store]
    ELSE [ok |-> ~state_expired(at, store[state]),
          store |-> [s \in DOMAIN store \ {state} |-> store[s]]]

\* database.py 141-170, get_session_info: the active session and its token row
get_session_info(d, session_id) ==
    IF session_id \in DOMAIN d.sessions /\ d.sessions[session_id].is_active
    THEN LET session == d.sessions[session_id]
             tokens == d.oauth_tokens[session.token_id]
         IN  [session_id |-> session_id,
              user_id |-> session.user_id,
              access_token |-> tokens.access_token,
              refresh_token |-> tokens.refresh_token,
              access_token_expiry |-> tokens.access_token_expiry]
    ELSE None

\* database.py 98-110, update_access_token: every token row of the user
update_access_token(d, user_id, encrypted_access_token, expiry) ==
    [d EXCEPT !.oauth_tokens =
        [t \in DOMAIN @ |->
            IF @[t].user_id = user_id
            THEN [@[t] EXCEPT !.access_token = encrypted_access_token,
                              !.access_token_expiry = expiry]
            ELSE @[t]]]

\* database.py 172-183, deactivate_session
deactivate_session(d, session_id) ==
    IF session_id \in DOMAIN d.sessions
    THEN [d EXCEPT !.sessions[session_id].is_active = FALSE]
    ELSE d

\* oauth.py 94-124, store_tokens_and_create_session
store_tokens_and_create_session(d, at, tokens, user_email, session_id) ==
    LET user_id == hash_user_id(user_email)
        row == [user_id |-> user_id,
                access_token |-> encrypt_token(tokens.access_token),
                access_token_expiry |-> at + tokens.expires_in,
                refresh_token |-> IF tokens.has_refresh_token
                                  THEN encrypt_token("refresh") ELSE None]
        token_id == Len(d.oauth_tokens) + 1
    IN  [sessions |-> (session_id :> [user_id |-> user_id, token_id |-> token_id,
                                      is_active |-> TRUE]) @@ d.sessions,
         oauth_tokens |-> Append(d.oauth_tokens, row)]

\* oauth.py 139: datetime.utcnow() > access_token_expiry
access_token_expired_never(at, expiry) == FALSE

access_token_expired(at, expiry) == at > expiry

\* oauth.py 126-158, get_valid_access_token: the token it returns, the
\* database it leaves, and whether Google was asked for a new token.  answer
\* is what refresh_access_token does if it is called: it raises, or it gives a
\* token and its life.
get_valid_access_token(d, at, session_id, answer) ==
    LET session_info == get_session_info(d, session_id) IN
    IF session_info = None
    THEN [token |-> "None", db |-> d, refresh |-> "not called"]
    ELSE IF access_token_expired(at, session_info.access_token_expiry)
    THEN IF session_info.refresh_token = None
         THEN [token |-> "None", db |-> d, refresh |-> "not called"]
         ELSE IF answer.raises
         THEN [token |-> "None", db |-> d, refresh |-> "raised"]
         ELSE [token |-> answer.access_token,
               db |-> update_access_token(d, session_info.user_id,
                                          encrypt_token(answer.access_token),
                                          at + answer.expires_in),
               refresh |-> "answered"]
    ELSE [token |-> decrypt_token(session_info.access_token), db |-> d,
          refresh |-> "not called"]

\* what refresh_access_token can do when n tokens have been issued
RefreshAnswers(n) ==
    {[raises |-> TRUE, access_token |-> "None", expires_in |-> 0]}
    \cup {[raises |-> FALSE, access_token |-> google_access_token(n + 1), expires_in |-> e] :
            e \in IF n < MaxMint THEN ExpiresIn ELSE {}}

\* the database before the first call: empty, or holding the session that
\* routes/auth.py line 18 names
HardcodedDbs ==
    {store_tokens_and_create_session(EmptyDb, 0,
        [access_token |-> "tok-0", expires_in |-> e, has_refresh_token |-> r],
        "a@x.io", HardcodedSession) :
            e \in {STATE_TTL_SECONDS}, r \in {TRUE}}

AuthInit ==
    /\ BatchIdle /\ FetchIdle /\ ExtractIdle /\ FlowIdle
    /\ state_store = EmptyDict
    /\ wall = 1
    /\ db \in {EmptyDb} \cup HardcodedDbs
    /\ acall = [op |-> "none"]
    /\ ahist = NoHistory

issued == DOMAIN ahist.issued_at

\* routes/auth.py 25-35, /login, and oauth.py 24-40, generate_auth_url
Login ==
    /\ Cardinality(issued) < MaxLogin
    /\ LET state == token_urlsafe(Cardinality(issued) + 1) IN
        /\ state_store' = (state :> wall) @@ state_store
        /\ acall' = [op |-> "login", state |-> state]
        /\ ahist' = [ahist EXCEPT !.issued_at = (state :> wall) @@ @,
                                  !.accepted = (state :> 0) @@ @]
    /\ UNCHANGED <<wall, db>>
    /\ UNCHANGED <<batch_vars, fetch_vars, extract_vars, flow_vars>>

\* the query a browser brings back to /callback
CallbackQueries ==
    {[error |-> "access_denied", code |-> "None", state |-> "None"],
     [error |-> "None", code |-> "None", state |-> token_urlsafe(1)],
     [error |-> "None", code |-> "code", state |-> "None"]}
    \cup {[error |-> "None", code |-> "code", state |-> s] :
            s \in {token_urlsafe(n) : n \in 1..MaxLogin} \cup {ForgedState}}

\* the tokens Google gives for a code, and whose they are
Grants ==
    {[expires_in |-> STATE_TTL_SECONDS, has_refresh_token |-> TRUE, email |-> "a@x.io"],
     [expires_in |-> 1, has_refresh_token |-> TRUE, email |-> "a@x.io"],
     [expires_in |-> 1, has_refresh_token |-> FALSE, email |-> "b@x.io"]}

\* what exchange_code_for_tokens does: it raises, or Google gives tokens
ExchangeAnswers(n) ==
    {[raises |-> TRUE, access_token |-> "None", expires_in |-> 0,
      has_refresh_token |-> FALSE, email |-> "a@x.io"]}
    \cup {[raises |-> FALSE, access_token |-> google_access_token(n + 1),
           expires_in |-> g.expires_in, has_refresh_token |-> g.has_refresh_token,
           email |-> g.email] :
            g \in IF n < MaxMint THEN Grants ELSE {}}

\* routes/auth.py 37-84, /callback
OauthCallback ==
    \E query \in CallbackQueries, answer \in ExchangeAnswers(ahist.minted) :
        /\ IF ~is_not(query.error)
           THEN /\ acall' = [op |-> "callback", at |-> wall, state |-> query.state, validated |-> "not called",
                             status |-> 400, cookie |-> "None"]
                /\ UNCHANGED <<state_store, db, ahist>>
           ELSE IF is_not(query.code) \/ is_not(query.state)
           THEN /\ acall' = [op |-> "callback", at |-> wall, state |-> query.state, validated |-> "not called",
                             status |-> 400, cookie |-> "None"]
                /\ UNCHANGED <<state_store, db, ahist>>
           ELSE LET v == validate_state(state_store, wall, query.state)
                    session_id == generate_session_id(Cardinality(DOMAIN db.sessions
                                                                  \ {HardcodedSession}) + 1)
                IN  /\ state_store' = v.store
                    /\ IF ~v.ok
                       THEN /\ acall' = [op |-> "callback", at |-> wall, state |-> query.state,
                                         validated |-> "False", status |-> 400, cookie |-> "None"]
                            /\ UNCHANGED <<db, ahist>>
                       ELSE IF answer.raises
                       THEN /\ acall' = [op |-> "callback", at |-> wall, state |-> query.state,
                                         validated |-> "True", status |-> 307, cookie |-> "None"]
                            /\ ahist' = [ahist EXCEPT !.accepted[query.state] = @ + 1]
                            /\ db' = db
                       ELSE /\ db' = store_tokens_and_create_session(db, wall, answer,
                                                                     answer.email, session_id)
                            /\ acall' = [op |-> "callback", at |-> wall, state |-> query.state,
                                         validated |-> "True", status |-> 307,
                                         cookie |-> session_id]
                            /\ ahist' = [ahist EXCEPT !.accepted[query.state] = @ + 1,
                                                      !.minted = @ + 1]
        /\ UNCHANGED wall
        /\ UNCHANGED <<batch_vars, fetch_vars, extract_vars, flow_vars>>

\* routes/auth.py 86-102, /logout: the cookie is read from the request
Logout ==
    \E cookie \in Cookies :
        /\ IF ~is_not(cookie)
           THEN /\ db' = deactivate_session(db, cookie)
                /\ ahist' = IF cookie \in DOMAIN db.sessions
                            THEN [ahist EXCEPT !.logged_out = @ \cup {cookie}]
                            ELSE ahist
           ELSE UNCHANGED <<db, ahist>>
        /\ acall' = [op |-> "logout", cookie |-> cookie, status |-> 200]
        /\ UNCHANGED <<state_store, wall>>
        /\ UNCHANGED <<batch_vars, fetch_vars, extract_vars, flow_vars>>

\* routes/auth.py 104-125, /me: the cookie is read from the request
Me ==
    \E cookie \in Cookies :
        /\ acall' = [op |-> "me", cookie |-> cookie,
                     status |-> IF is_not(cookie) THEN 401
                                ELSE IF get_session_info(db, cookie) = None THEN 401
                                ELSE 200]
        /\ UNCHANGED <<state_store, wall, db, ahist>>
        /\ UNCHANGED <<batch_vars, fetch_vars, extract_vars, flow_vars>>

\* a protected endpoint up to its check of the token (routes/auth.py 127-141
\* for /sheets/data): get_current_session, then get_valid_access_token, then
\* 401 without a token.  Status 0 stands for a handler that goes on to its work.
Protected ==
    \E via \in {"app", "routes"}, cookie \in Cookies, answer \in RefreshAnswers(ahist.minted) :
        LET session_id == get_current_session(served_by(via, "sheets_data"), cookie) IN
        /\ IF is_not(session_id)
           THEN /\ acall' = [op |-> "protected", at |-> wall, via |-> via, cookie |-> cookie,
                             session_id |-> session_id, info |-> None, token |-> "None",
                             refresh |-> "not called", expires_in |-> 0, status |-> 401]
                /\ UNCHANGED <<db, ahist>>
           ELSE LET r == get_valid_access_token(db, wall, session_id, answer) IN
                /\ db' = r.db
                /\ ahist' = IF r.refresh = "answered" THEN [ahist EXCEPT !.minted = @ + 1]
                            ELSE ahist
                /\ acall' = [op |-> "protected", at |-> wall, via |-> via, cookie |-> cookie,
                             session_id |-> session_id,
                             info |-> get_session_info(db, session_id), token |-> r.token,
                             refresh |-> r.refresh,
                             expires_in |-> IF r.refresh = "answered"
                                            THEN answer.expires_in ELSE 0,
                             status |-> IF token_missing(r.token) THEN 401 ELSE 0]
        /\ UNCHANGED <<state_store, wall>>
        /\ UNCHANGED <<batch_vars, fetch_vars, extract_vars, flow_vars>>

\* time passes between two calls
Advance ==
    \E step \in ClockSteps :
        /\ ahist.advances < MaxAdvance
        /\ wall' = wall + step
        /\ ahist' = [ahist EXCEPT !.advances = @ + 1]
        /\ UNCHANGED <<state_store, db, acall>>
        /\ UNCHANGED <<batch_vars, fetch_vars, extract_vars, flow_vars>>

AuthNext ==
    \/ Login
    \/ OauthCallback
    \/ Logout
    \/ Me
    \/ Protected
    \/ Advance

SpecAuth == AuthInit /\ [][AuthNext]_vars

(* ============================== claims =============================== *)
BatchOver == pc \in {"returned", "raised"}

\* the entries a returned batch call reports, one per position
Entries == IF runner = "scrape" THEN out.val ELSE out.val.results

C2_FailuresIsolated ==
    /\ pc = "raised" => \A k \in Tasks : res[k].kind # "raise"
    /\ pc = "returned" =>
          \A k \in Tasks :
             IF res[k].kind = "raise"
             THEN ~Entries[k].success /\ Entries[k].error = res[k].exc.msg
             ELSE Entries[k] = res[k].val

(* ---------------------------------------------------------------------- *)
\* C3: with max_concurrent >= 1, at most max_concurrent tasks are inside
\* `async with semaphore` at any time, and the semaphore's value is the number
\* of free slots, so that a pending task enters only when a slot is free.
C3_ConcurrencyCap ==
    (max_concurrent >= 1 /\ pc # "call") =>
        /\ Cardinality(holding) <= max_concurrent
        /\ sem = max_concurrent - Cardinality(holding)

\* every slot is taken while an item is still waiting
C3_Witness ==
    /\ max_concurrent >= 1 /\ pc = "gather"
    /\ Cardinality(holding) = max_concurrent
    /\ \E i \in Tasks : st[i] = "pending"

(* ---------------------------------------------------------------------- *)
\* C4: a batch call returns only once every task has ended, with exactly one
\* outcome per item; and with max_concurrent >= 1 a batch call whose tasks
\* have all ended ends by returning.
C4_ReturnsEveryOutcome ==
    /\ pc = "returned" => (gather_complete /\ DOMAIN Entries = 1..N)
    /\ (max_concurrent >= 1 /\ BatchOver) => pc = "returned"

(* ---------------------------------------------------------------------- *)
\* C5: a batch call with max_concurrent <= 0 ends with an error before any
\* task starts: it never gets to wait for its tasks and never returns.
C5_FailsFast ==
    max_concurrent <= 0 =>
        /\ pc \in {"call", "raised"}
        /\ \A i \in Tasks : st[i] = "pending" /\ calls[i] = 0

(* ---------------------------------------------------------------------- *)
\* C6: a batch call on an empty list has nothing to wait for (gather can end
\* at once), takes no slot, and ends with the empty result: [] for
\* scrape_multiple_websites, total_emails = successful = failed = 0 and
\* results = [] for send_bulk_emails.  The only other way it ends is the
\* ValueError of a negative max_concurrent.
C6_EmptyBatch ==
    N = 0 =>
        /\ pc = "gather" => (sem = max_concurrent /\ ENABLED (ScrapeCollect \/ SendCollect))
        /\ pc = "raised" => max_concurrent < 0
        /\ pc = "returned" =>
              IF runner = "scrape" THEN out.val = <<>>
              ELSE out.val = [total_emails |-> 0, successful |-> 0, failed |-> 0,
                              results |-> <<>>]
        /\ calls = <<>>

C6_Witness == N = 0 /\ pc = "returned" /\ runner = "send"

(* ---------------------------------------------------------------------- *)
\* C7: in send_bulk_emails a task that has entered `async with semaphore`
\* and called send_email keeps its slot until send_email has returned and
\* delay_between_batches ticks have passed since; while it sleeps it stays
\* where it is, and a pending task enters only when fewer than max_concurrent
\* tasks, sleeping ones included, hold a slot.
C7_Step ==
    (runner = "send" /\ pc = "gather") =>
        /\ \A i \in Tasks :
              (st[i] = "sleeping" /\ now < wake[i]) => st'[i] = "sleeping"
        /\ \A i \in Tasks :
              (st[i] \in {"running", "sleeping"} /\ st'[i] = "done") =>
                  /\ st[i] = "sleeping"
                  /\ res[i].kind = "return"
                  /\ now >= wake[i]
                  /\ sem' = sem + 1
        /\ \A j \in Tasks :
              (st[j] = "pending" /\ st'[j] # "pending") =>
                  Cardinality(holding) < max_concurrent

C7_SlotHeldDuringDelay == [][C7_Step]_vars

\* a task is in its pacing delay, no slot is free and another item waits
C7_Witness ==
    /\ runner = "send" /\ delay > 0 /\ pc = "gather"
    /\ sem = 0
    /\ \E i \in Tasks : st[i] = "sleeping" /\ now < wake[i]
    /\ \E j \in Tasks : st[j] = "pending"

(* ---------------------------------------------------------------------- *)
\* C8: scrape_website and send_email always return, never raise: the record
\* returned has a boolean 'success', and has an 'error' when success is False.
C8_NoThrow ==
    fpc = "done" =>
        /\ fret.kind = "return"
        /\ fret.val.success \in BOOLEAN
        /\ ~fret.val.success => "error" \in DOMAIN fret.val

\* a fetch that fails with neither a timeout nor a status error
C8_Witness ==
    /\ fpc = "done" /\ fcall.fn = "scrape_website"
    /\ fcall.net.kind = "connect_error"
    /\ fret.events # <<>>
    /\ ~fret.val.success

(* ---------------------------------------------------------------------- *)
\* the host of an authority: what precedes the port's colon
RECURSIVE host(_)
host(nl) == IF nl = <<>> \/ Head(nl) = ":" THEN <<>> ELSE <<Head(nl)>> \o host(Tail(nl))

\* C9: an identifier that is not a string, is empty after trimming, or has
\* no host once 'https://' has been added, gets 'Invalid URL format' and no
\* network call.
C9_InvalidUrlRejected ==
    (/\ fpc = "done" /\ fcall.fn = "scrape_website"
     /\ \/ fcall.url.type # "str"
        \/ strip(fcall.url.s) = <<>>
        \/ host(netloc(add_scheme(strip(fcall.url.s)))) = <<>>)
    => (/\ fret.kind = "return"
        /\ fret.val = ScrapeFailure(fcall.url, "Invalid URL format")
        /\ fret.events = <<>>)

(* ---------------------------------------------------------------------- *)
Fetched == fpc = "done" /\ fcall.fn = "scrape_website" /\ fret.events # <<>>

\* C10, as stated: a non-2xx answer of status s gives 'HTTP s' whatever its
\* content-length, and a timeout gives 'Request timeout'.
C10_Original_AnyContentLength ==
    Fetched =>
        /\ (fcall.net.kind = "response" /\ ~is_success(fcall.net.status)) =>
              fret.val = ScrapeFailure(fcall.url, FmtHTTP(fcall.net.status))
        /\ fcall.net.kind = "timeout" =>
              fret.val = ScrapeFailure(fcall.url, "Request timeout")

\* C10, as amended: a non-2xx answer of status s gives 'HTTP s' when its
\* content-length header is absent, empty or a number not above 1,000,000; a
\* content-length above 1,000,000 gives 'Content too large' and one that is
\* no number gives the failure of int(), whatever the status; a timeout gives
\* 'Request timeout'.
C10_StatusAndTimeout ==
    Fetched =>
        /\ (/\ fcall.net.kind = "response" /\ ~is_success(fcall.net.status)
            /\ \/ fcall.net.cl.kind \in {"absent", "empty"}
               \/ fcall.net.cl.kind = "int" /\ fcall.net.cl.n <= 1000000)
           => fret.val = ScrapeFailure(fcall.url, FmtHTTP(fcall.net.status))
        /\ (/\ fcall.net.kind = "response"
            /\ fcall.net.cl.kind = "int" /\ fcall.net.cl.n > 1000000)
           => fret.val = ScrapeFailure(fcall.url, "Content too large")
        /\ (fcall.net.kind = "response" /\ fcall.net.cl.kind = "garbage")
           => fret.val = ScrapeFailure(fcall.url, "invalid literal for int()")
        /\ fcall.net.kind = "timeout" =>
              fret.val = ScrapeFailure(fcall.url, "Request timeout")

\* a 404 answer with a small content-length
C10_Witness ==
    /\ Fetched
    /\ fcall.net.kind = "response" /\ fcall.net.status = 404
    /\ fcall.net.cl.kind = "int" /\ fcall.net.cl.n = 0
    /\ fret.val.error = "HTTP 404"

(* ---------------------------------------------------------------------- *)
\* C11: _clean_url is idempotent: cleaning what it returned gives what it
\* returned (None stays None), and 'example.com', a bare host without a
\* scheme, becomes 'https://example.com'.
C11_CleanIdempotent ==
    (fpc = "done" /\ fcall.fn = "clean_url") =>
        /\ fret.val.twice = fret.val.once
        /\ fcall.url = Str(<<"a">>) => fret.val.once = Str(<<"https://", "a">>)

\* a string that cleaning changed (blanks stripped and the scheme added)
C11_Witness ==
    /\ fpc = "done" /\ fcall.fn = "clean_url"
    /\ fcall.url = Str(<<"sp", "a", "sp">>)
    /\ fret.val.once = Str(<<"https://", "a">>)
    /\ fret.val.twice = fret.val.once

(* ---------------------------------------------------------------------- *)
\* C12: the value a step of scrape_website puts into the record is a value
\* that step returns for the page as it was parsed, whatever steps ran before
\* it; a malformed JSON-LD script changes no other step's value.
C12_StepsIndependent ==
    \A step \in DOMAIN rec : rec[step] \in step_values(step, parse(page))

(* ---------------------------------------------------------------------- *)
\* C13: two extractions of the same raw content return the same record, and
\* the extraction of empty content returns the record of empty defaults.
EmptyDefaults ==
    [title |-> "", description |-> "", keywords |-> <<>>, headings |-> EmptyDict,
     main_content |-> <<>>, contact_info |-> [emails |-> <<>>, phones |-> <<>>],
     social_links |-> <<>>, business_info |-> EmptyDict, technologies |-> <<>>]

C13_DeterministicAndTotal ==
    /\ Len(xout) = 2 => xout[1] = xout[2]
    /\ (page = {} /\ Len(xout) >= 1) =>
          \A f \in DOMAIN EmptyDefaults : xout[1][f] = EmptyDefaults[f]

(* ---------------------------------------------------------------------- *)
\* C19: a result of send_email has a message id exactly when its success is
\* true and an error message exactly when its success is false.
has_message_id(r) == "message_id" \in DOMAIN r /\ r.message_id # "None"
has_error(r) == "error" \in DOMAIN r /\ r.error # ""

C19_IdXorError ==
    (fpc = "done" /\ fcall.fn = "send_email") =>
        IF fret.val.success
        THEN has_message_id(fret.val) /\ ~has_error(fret.val)
        ELSE has_error(fret.val) /\ ~has_message_id(fret.val)

(* ---------------------------------------------------------------------- *)
\* C14: a /sheets/scrape request whose sheet yields at least one URL is answered
\* with a ScrapeResponse that has one scraped_data entry per URL and
\* successful_scrapes + failed_scrapes = total_urls, whatever the scrapes did.
C14_BadUrlIsolated ==
    (hpc = "responded" /\ req.endpoint = "sheets_scrape" /\ loc.urls # <<>>) =>
        /\ resp.status = 200
        /\ Len(resp.body.scraped_data) = Len(loc.urls)
        /\ resp.body.successful_scrapes + resp.body.failed_scrapes = resp.body.total_urls
        /\ resp.body.total_urls = Len(loc.urls)

(* ---------------------------------------------------------------------- *)
\* C15: each item of the campaign report tells which phases succeeded, and its
\* error is the error of the earliest phase that failed for the contact:
\* the scrape's, else the generation's, else the send's, else none.
first_error(contact, send_result) ==
    IF ~contact.website_data.success THEN contact.website_data.error
    ELSE IF ~contact.email_content.generated_successfully THEN contact.email_content.error
    ELSE IF ~send_result.success THEN send_result.error
    ELSE "None"

C15_EarliestError ==
    (hpc = "responded" /\ req.endpoint = "campaign_send" /\ resp.status = 200) =>
        \A i \in DOMAIN loc.contacts :
            LET item == resp.body.detailed_results[i]
                contact == loc.contacts[i]
                send_result == out.val.results[i]
            IN  /\ item.website_scraped = contact.website_data.success
                /\ item.email_generated = contact.email_content.generated_successfully
                /\ item.email_sent = send_result.success
                /\ item.error = first_error(contact, send_result)

(* ---------------------------------------------------------------------- *)
\* C16: in a campaign, send_bulk_emails is called only when
\* scrape_multiple_websites has returned with every scrape task ended, and a
\* send_email call is made only in the send phase that follows.
C16_Step ==
    /\ (runner' = "send" /\ runner # "send") =>
          /\ runner = "scrape" /\ pc = "returned"
          /\ \A i \in Tasks : st[i] = "done"
          /\ Len(out.val) = Len(loc.contacts)
    /\ (runner = "send" /\ calls' # calls) => (hpc = "sending" /\ pc = "gather")

C16_SendAfterScrape == [][C16_Step]_vars

\* a send_email call in flight in a campaign of two contacts whose websites
\* were both fetched over the network
C16_Witness ==
    /\ hpc = "sending" /\ runner = "send"
    /\ Len(loc.contacts) = 2
    /\ \A i \in DOMAIN loc.contacts : loc.contacts[i].website_url = Str(<<"a">>)
    /\ \E i \in Tasks : st[i] = "running"

(* ---------------------------------------------------------------------- *)
\* C17: when get_valid_access_token returned no token, the handler has
\* answered 401 and has called no collaborator but get_valid_access_token: no
\* sheet read, no batch call, no generation.
C17_NoTokenAborts ==
    loc.access_token = "None" =>
        /\ hpc = "responded"
        /\ resp.status = 401
        /\ effects = <<"get_valid_access_token">>
        /\ pc = "idle" /\ runner = "none"
        /\ loc.contacts = <<>> /\ loc.urls = <<>>

\* /campaign/send answered 401 for a session without a token
C17_Witness ==
    /\ req.endpoint = "campaign_send"
    /\ loc.access_token = "None"
    /\ hpc = "responded" /\ resp.status = 401

(* ---------------------------------------------------------------------- *)
\* C18: once the generation loop has passed a contact, generate_personalized_email
\* has been called once for it if its scrape succeeded and never if it failed,
\* in which case its e-mail is the fixed fallback with generated_successfully
\* False; a contact the loop has not reached has no call.
C18_GeneratedOncePerScraped ==
    (req.endpoint = "campaign_send" /\ loc.gi >= 1) =>
        /\ \A i \in DOMAIN loc.contacts :
              IF i >= loc.gi THEN loc.gen_calls[i] = 0
              ELSE IF loc.contacts[i].website_data.success
              THEN /\ loc.gen_calls[i] = 1
                   /\ loc.contacts[i].email_content \in GeminiAnswers
              ELSE /\ loc.gen_calls[i] = 0
                   /\ loc.contacts[i].email_content = fallback_email
                   /\ ~loc.contacts[i].email_content.generated_successfully
        /\ Cardinality({k \in DOMAIN effects : effects[k] = "generate_personalized_email"})
              = Cardinality({i \in DOMAIN loc.contacts :
                                i < loc.gi /\ loc.contacts[i].website_data.success})

\* the loop is over for two contacts, one scraped and one not
C18_Witness ==
    /\ req.endpoint = "campaign_send" /\ hpc = "sending"
    /\ Len(loc.contacts) = 2
    /\ loc.contacts[1].website_data.success /\ loc.gen_calls[1] = 1
    /\ ~loc.contacts[2].website_data.success /\ loc.gen_calls[2] = 0

(* ---------------------------------------------------------------------- *)
\* C20: a request without a session cookie is answered 401 'No session found'
\* before get_valid_access_token or any collaborator is called, and the
\* session a handler works for is the one of the request's cookie.
C20_CookieRequired ==
    /\ (hpc # "request" /\ req.cookie = "None") =>
          /\ hpc = "responded"
          /\ resp.status = 401 /\ resp.detail = "No session found"
          /\ effects = <<>>
    /\ loc.session_id # "unset" => loc.session_id = req.cookie

(* ---------------------------------------------------------------------- *)
\* how far a task is: not started, inside `async with semaphore` (at work, or
\* in its pacing delay), ended
phase(state) == IF state = "pending" THEN 0 ELSE IF state = "done" THEN 2 ELSE 1

\* C21: a task only moves forward, pending -> inside the semaphore -> ended
\* (a task that never awaits passes through in one stretch); it calls its
\* worker function at most once, and only as it leaves pending; once it has
\* ended, its state and its outcome never change; its outcome is written once,
\* in a step of its own that changes no other task; and when the batch call
\* returns, position i of the result holds the outcome of task i.
C21_Step ==
    /\ \A i \in Tasks :
          /\ phase(st'[i]) >= phase(st[i])
          /\ calls'[i] # calls[i] => (st[i] = "pending" /\ calls[i] = 0 /\ calls'[i] = 1)
          /\ st[i] = "done" => (st'[i] = "done" /\ res'[i] = res[i] /\ res[i] # NoOutcome)
          /\ res'[i] # res[i] =>
                /\ res[i] = NoOutcome
                /\ st'[i] # st[i]
                /\ \A j \in Tasks \ {i} : st'[j] = st[j] /\ res'[j] = res[j]
    /\ (pc # "returned" /\ pc' = "returned") =>
          \A i \in Tasks :
             IF res[i].kind = "return" THEN Entries'[i] = res[i].val
             ELSE ~Entries'[i].success /\ Entries'[i].error = res[i].exc.msg

C21_ItemLifecycle == [][C21_Step]_vars

\* a returned send batch whose second task ended first, one e-mail sent and
\* one not
C21_Witness ==
    /\ pc = "returned" /\ runner = "send" /\ N = 2
    /\ done_order = <<2, 1>>
    /\ Entries[1].success /\ ~Entries[2].success

sent == {i \in Tasks : calls[i] = 1}

C23_TooLargeBodyUnread ==
    (/\ Fetched
     /\ fcall.net.kind = "response"
     /\ fcall.net.cl.kind = "int" /\ fcall.net.cl.n > max_content_length)
    => (/\ fret.val = ScrapeFailure(fcall.url, "Content too large")
        /\ \A k \in DOMAIN fret.events : fret.events[k] # "read_body")

(* ---------------------------------------------------------------------- *)
\* the members of a list
members(list) == {list[k] : k \in DOMAIN list}

\* C24: in a record returned for a page, 'technologies' has the framework of
\* every script src of the page that names one, and 'business_info' has name,
\* description and type when the page has a JSON-LD script of an Organization.
C24_ScriptsReflected ==
    \A k \in DOMAIN xout :
        /\ \A e \in page :
              (e.tag = "script_src" /\ framework(e.val) # "") =>
                  framework(e.val) \in members(xout[k].technologies)
        /\ (\E e \in page : e.tag = "script_ld" /\ e.val = "Organization") =>
              {"name", "description", "industry"} \subseteq DOMAIN xout[k].business_info

(* ---------------------------------------------------------------------- *)
\* C25: in a record returned for a page, every entry of contact_info.emails is
\* an e-mail address of the page's text and every entry of contact_info.phones
\* is a phone number of the page's text, header, footer and navigation
\* included; no list has an entry twice or more than five entries.
C25_ContactsAreMatches ==
    \A k \in DOMAIN xout :
        LET emails == xout[k].contact_info.emails
            phones == xout[k].contact_info.phones
        IN  /\ members(emails) \subseteq {e.val : e \in {f \in page : f.tag = "email"}}
            /\ members(phones) \subseteq {e.val : e \in {f \in page : f.tag = "phone"}}
            /\ Cardinality(members(emails)) = Len(emails) /\ Len(emails) <= 5
            /\ Cardinality(members(phones)) = Len(phones) /\ Len(phones) <= 5

(* ---------------------------------------------------------------------- *)
\* a header and a requested name are equal after trimming and lower-casing both
same_column(header, name) == name_lower(name_strip(header)) = name_lower(name_strip(name))

\* the columns a request needs
required_columns ==
    IF req.endpoint = "sheets_scrape" THEN {req.url_column_name}
    ELSE {req.columns.email_column, req.columns.company_column, req.columns.website_column}

sheet_was_read == \E k \in DOMAIN effects : effects[k] = "sheets_service"

\* C26: once /sheets/scrape or /campaign/send has read a sheet with a header
\* row and a data row, the first row being the header: if every required
\* column has a header equal to its requested name after trimming and
\* lower-casing both, the request is not refused for a missing column, and each
\* column located is one whose header equals the requested name in that way;
\* if some required column has no such header, the request is answered 400 and
\* no scrape or send was started.
C26_HeaderMatch ==
    (/\ req.endpoint \in {"sheets_scrape", "campaign_send"}
     /\ sheet_was_read
     /\ env.sheet.kind = "values" /\ Len(env.sheet.values) >= 2)
    => LET headers == env.sheet.values[1]
           found(name) == \E i \in 1..Len(headers) : same_column(headers[i], name)
           located(col, name) == col \in 1..Len(headers) /\ same_column(headers[col], name)
       IN  /\ (\A name \in required_columns : found(name)) =>
                 /\ resp.detail \notin {"Column not found", "Required columns not found"}
                 /\ (loc.cols # EmptyDict /\ req.endpoint = "sheets_scrape") =>
                       located(loc.cols.url, req.url_column_name)
                 /\ (loc.cols # EmptyDict /\ req.endpoint = "campaign_send") =>
                       /\ located(loc.cols.email, req.columns.email_column)
                       /\ located(loc.cols.company, req.columns.company_column)
                       /\ located(loc.cols.website, req.columns.website_column)
           /\ (\E name \in required_columns : ~found(name)) =>
                 /\ hpc = "responded" /\ resp.status = 400
                 /\ runner = "none" /\ pc = "idle"

(* ---------------------------------------------------------------------- *)
\* the rows of the sheet, header not counted, that have a non-empty e-mail
\* address, company and website in the columns located
complete_rows ==
    {k \in 2..Len(env.sheet.values) :
        LET row == env.sheet.values[k] IN
        /\ \A c \in {loc.cols.email, loc.cols.company, loc.cols.website} : c <= Len(row)
        /\ row[loc.cols.email] # ""
        /\ row[loc.cols.company] # ""
        /\ strip(row[loc.cols.website].s) # <<>>}

\* C30: in a campaign that has listed its contacts, the contacts are the rows
\* that have an e-mail address, a company and a website, once each and in the
\* order of the sheet; send_email is called at most once for a contact and for
\* nothing else, and exactly once for every contact by the time the sends are
\* over; the campaign then answers 200 with emails_sent_successfully +
\* emails_failed = total_contacts = the number of detailed results, where
\* result i is about contact i and tells what send_email returned for it.
C30_OneSendPerContact ==
    (req.endpoint = "campaign_send" /\ loc.contacts # <<>>) =>
        LET contacts == loc.contacts
            n == Len(contacts)
        IN  /\ {contacts[i].row_number : i \in 1..n} = complete_rows
            /\ \A i, j \in 1..n : i < j => contacts[i].row_number < contacts[j].row_number
            /\ runner = "send" =>
                  /\ N = n
                  /\ \A i \in Tasks : items[i].to = contacts[i].email /\ calls[i] <= 1
                  /\ BatchOver => \A i \in Tasks : calls[i] = 1
            /\ hpc = "responded" =>
                  /\ resp.status = 200 /\ runner = "send" /\ pc = "returned"
                  /\ resp.body.total_contacts = n
                  /\ Len(resp.body.detailed_results) = n
                  /\ resp.body.emails_sent_successfully + resp.body.emails_failed = n
                  /\ resp.body.emails_sent_successfully =
                        Cardinality({i \in 1..n : resp.body.detailed_results[i].email_sent})
                  /\ \A i \in 1..n :
                        LET item == resp.body.detailed_results[i] IN
                        /\ item.email = contacts[i].email
                        /\ item.row_number = contacts[i].row_number
                        /\ res[i].kind = "return" /\ res[i].val.to = contacts[i].email
                        /\ item.email_sent = res[i].val.success
                        /\ item.message_id = dict_get(res[i].val, "message_id")

\* a campaign on a sheet of two rows has answered: the first row's website
\* could not be scraped and its e-mail was sent; the second row has no e-mail
\* address and is no contact
C30_Witness ==
    /\ req.endpoint = "campaign_send" /\ hpc = "responded" /\ resp.status = 200
    /\ Len(env.sheet.values) = 3 /\ complete_rows = {2}
    /\ ~loc.contacts[1].website_data.success
    /\ calls = <<1>>
    /\ resp.body.detailed_results[1].email_sent

(* ---------------------------------------------------------------------- *)
\* a call of /callback that reached validate_state
validated_call == acall.op = "callback" /\ acall.validated # "not called"

\* C27: a CSRF state is good once and for 600 seconds.  validate_state
\* returns True at most once for a state, and only for a state that
\* generate_auth_url issued at most STATE_TTL_SECONDS before the call; after a
\* call of validate_state on an issued state, accepted or expired, the state is
\* not in the store; a state that was never issued is rejected.
C27_StateOneTimeUse ==
    /\ \A s \in issued : ahist.accepted[s] <= 1
    /\ DOMAIN state_store \subseteq issued
    /\ validated_call =>
          /\ acall.validated = "True" =>
                /\ acall.state \in issued
                /\ acall.at - ahist.issued_at[acall.state] <= STATE_TTL_SECONDS
          /\ acall.state \in issued => acall.state \notin DOMAIN state_store
          /\ acall.state \notin issued => acall.validated = "False"

\* a state accepted on its last second has been offered again and rejected
C27_Witness ==
    /\ validated_call /\ acall.validated = "False"
    /\ acall.state \in issued
    /\ ahist.accepted[acall.state] = 1
    /\ acall.at - ahist.issued_at[acall.state] = STATE_TTL_SECONDS

(* ---------------------------------------------------------------------- *)
\* a call of a protected endpoint that called get_valid_access_token
token_call == acall.op = "protected" /\ ~is_not(acall.session_id)

\* the token row of a session
stored_tokens(session_id) == db.oauth_tokens[db.sessions[session_id].token_id]

\* C28: get_valid_access_token(session_id) returns None for a session that
\* is missing or inactive, for an expired token without a refresh token, and
\* when the refresh call fails; for an expired token whose refresh succeeds it
\* stores the new token with its new expiry and returns the new token;
\* otherwise it returns the stored token, stores nothing and makes no refresh
\* call.  So the token it returns is the stored one, and its stored expiry has
\* not passed.
C28_ValidAccessToken ==
    token_call =>
        LET session_id == acall.session_id
            session_info == acall.info
            inactive == \/ session_id \notin DOMAIN db.sessions
                        \/ ~db.sessions[session_id].is_active
            expired == acall.at > session_info.access_token_expiry
            unchanged == /\ stored_tokens(session_id).access_token = session_info.access_token
                         /\ stored_tokens(session_id).access_token_expiry
                                = session_info.access_token_expiry
        IN  /\ inactive => acall.token = "None" /\ acall.refresh = "not called"
            /\ ~inactive =>
                  /\ (expired /\ session_info.refresh_token = None) =>
                        acall.token = "None" /\ acall.refresh = "not called" /\ unchanged
                  /\ (expired /\ session_info.refresh_token # None) =>
                        /\ acall.refresh \in {"raised", "answered"}
                        /\ acall.refresh = "raised" => acall.token = "None" /\ unchanged
                        /\ acall.refresh = "answered" =>
                              /\ acall.token # "None"
                              /\ acall.token # decrypt_token(session_info.access_token)
                              /\ stored_tokens(session_id).access_token_expiry
                                    = acall.at + acall.expires_in
                  /\ ~expired =>
                        /\ acall.token = decrypt_token(session_info.access_token)
                        /\ acall.refresh = "not called" /\ unchanged
                  /\ acall.token # "None" =>
                        /\ decrypt_token(stored_tokens(session_id).access_token) = acall.token
                        /\ stored_tokens(session_id).access_token_expiry >= acall.at

\* an expired token has been refreshed, and the new one returned
C28_Witness ==
    /\ token_call /\ acall.refresh = "answered" /\ acall.token # "None"
    /\ acall.at > acall.info.access_token_expiry

(* ---------------------------------------------------------------------- *)
\* C29: logout is final for a session.  Once /logout has deactivated
\* session s, s is never active again, get_session_info(s) and
\* get_valid_access_token(s) return None, and /me and a protected endpoint
\* called with the cookie s answer 401.
C29_LogoutAbsorbing ==
    \A s \in ahist.logged_out :
        /\ ~db.sessions[s].is_active
        /\ get_session_info(db, s) = None
        /\ \A answer \in RefreshAnswers(ahist.minted) :
              get_valid_access_token(db, wall, s, answer).token = "None"
        /\ (acall.op \in {"me", "protected"} /\ acall.cookie = s) => acall.status = 401

=============================================================================
